---- MODULE Spec2Model ----
(***************************************************************************)
(* Verification model of the zei cryptographic primitives:                 *)
(*   - ElGamal encryption in the exponent   (crypto/src/basics/elgamal.rs) *)
(*   - BLS signatures, aggregation, batching                               *)
(*                                   (src/basic_crypto/signatures/bls.rs)  *)
(*   - joint proof of knowledge of attributes  (src/proofs/identity.rs)    *)
(*                                                                         *)
(* Algebra.  Every group of the library (Ristretto, Jubjub, BLS12-381 G1,  *)
(* G2, Gt) is cyclic of prime order, and the scalars are the field of that *)
(* order.  A group element is represented by its discrete logarithm with   *)
(* respect to the canonical generator, so that                             *)
(*      get_identity = 0      get_base = 1                                 *)
(*      a.add(b) = a + b      a.sub(b) = a - b      g.mul(s) = g * s       *)
(* all modulo the group order Q, and the pairing of a and b is a * b.      *)
(* The order is scaled down to a small prime; the u64 plaintext domain is  *)
(* scaled with it and stays strictly below the order, as 2^64 is below     *)
(* the order of every supported curve.                                     *)
(***************************************************************************)
EXTENDS Integers, Sequences, FiniteSets, TLC

\* ------------------------------------------------------------------ bounds
\* index of the group order in Primes
FieldIdx == 1
\* largest u64 value of the model (stands for u64::MAX)
MaxU64 == 3

Primes == <<5, 7, 11, 13, 17>>

\* order of the scalar field and of every group
Q == Primes[FieldIdx]

\* ----------------------------------------------------------------- algebra
ScalarSet == 0 .. (Q - 1)

GroupSet == 0 .. (Q - 1)

U64 == 0 .. MaxU64

\* Scalar::add
s_add(a, b) == (a + b) % Q

\* Scalar::mul
s_mul(a, b) == (a * b) % Q

\* Scalar::sub
s_sub(a, b) == (a - b + Q) % Q

get_identity == 0

get_base == 1

\* Group::mul (scalar multiplication)
mul(g, s) == (g * s) % Q

\* Group::add
add(a, b) == (a + b) % Q

\* Group::sub
sub(a, b) == (a - b + Q) % Q

\* bilinear map G1 x G2 -> Gt
pairing(a, b) == (a * b) % Q

\* every element but the identity generates a group of prime order
Generators == GroupSet \ {get_identity}

RECURSIVE BitsOf(_)
\* number of binary digits of n
BitsOf(n) == IF n = 0 THEN 0 ELSE 1 + BitsOf(n \div 2)

\* width of the unsigned integers of the model (64 in the library)
U64Bits == BitsOf(MaxU64)

RECURSIVE from_u64_loop(_, _, _, _)
\* the shift-and-double loop of Scalar::from_u64, k iterations left
from_u64_loop(v, result, two_pow_i, k) ==
  IF k = 0 \/ v = 0 THEN result
  ELSE from_u64_loop(v \div 2,
                     IF v % 2 = 1 THEN s_add(result, two_pow_i) ELSE result,
                     s_add(two_pow_i, two_pow_i),
                     k - 1)

from_u64(value) == from_u64_loop(value, 0, 1, U64Bits)

\* "Self::from_u64(value as u64)": the widening keeps the value
from_u32(value) == from_u64(value)

\* the locals of from_u64 before the first iteration
from_u64_start(value) ==
  [v |-> value, result |-> 0, two_pow_i |-> 1, i |-> 0, done |-> FALSE]

\* mutant: two_pow_i is not doubled when the bit is clear
from_u64_iter_mut(st) ==
  IF st.i = U64Bits \/ st.v = 0 THEN [st EXCEPT !.done = TRUE]
  ELSE [v |-> st.v \div 2,
        result |-> IF st.v % 2 = 1 THEN s_add(st.result, st.two_pow_i)
                   ELSE st.result,
        two_pow_i |-> IF st.v % 2 = 1 THEN s_add(st.two_pow_i, st.two_pow_i)
                      ELSE st.two_pow_i,
        i |-> st.i + 1,
        done |-> FALSE]

\* one pass of "for _ in 0..64": leave when the range is used up or v is 0,
\* else add two_pow_i for a set bit, shift v and double two_pow_i
from_u64_iter(st) ==
  IF st.i = U64Bits \/ st.v = 0 THEN [st EXCEPT !.done = TRUE]
  ELSE [v |-> st.v \div 2,
        result |-> IF st.v % 2 = 1 THEN s_add(st.result, st.two_pow_i)
                   ELSE st.result,
        two_pow_i |-> s_add(st.two_pow_i, st.two_pow_i),
        i |-> st.i + 1,
        done |-> FALSE]

\* ----------------------------------------------------------------- results
Ok(v) == [ok |-> TRUE, val |-> v, err |-> "none"]

Err(e) == [ok |-> FALSE, val |-> 0, err |-> e]

ElGamalVerificationError == "ElGamalVerificationError"

ElGamalDecryptionError == "ElGamalDecryptionError"

SignatureError == "SignatureError"

ParameterError == "ParameterError"

IdentityRevealVerificationError == "IdentityRevealVerificationError"

\* ----------------------------------------------------------------- ElGamal
elgamal_key_gen(base, secret_key) ==
  [sk |-> secret_key, pk |-> mul(base, secret_key)]

\* mutant: the plaintext is masked with base*r instead of pub_key*r
elgamal_encrypt_mut(base, m, r, pub_key) ==
  [e1 |-> mul(base, r), e2 |-> add(mul(base, m), mul(base, r))]

elgamal_encrypt(base, m, r, pub_key) ==
  [e1 |-> mul(base, r), e2 |-> add(mul(base, m), mul(pub_key, r))]

\* mutant: the mask e1*sk is left out of the comparison
elgamal_verify_mut(base, m, ctext, sec_key) ==
  IF mul(base, m) = ctext.e2
  THEN Ok(0)
  ELSE Err(ElGamalVerificationError)

elgamal_verify(base, m, ctext, sec_key) ==
  IF add(mul(base, m), mul(ctext.e1, sec_key)) = ctext.e2
  THEN Ok(0)
  ELSE Err(ElGamalVerificationError)

elgamal_decrypt_elem(ctext, sec_key) == sub(ctext.e2, mul(ctext.e1, sec_key))

RECURSIVE brute_force_loop_mut(_, _, _, _, _)
\* mutant: the range is closed, lower_bound ..= upper_bound
brute_force_loop_mut(base, encoded, b, i, upper_bound) ==
  IF i > upper_bound THEN Err(ElGamalDecryptionError)
  ELSE IF b = encoded THEN Ok(i)
  ELSE brute_force_loop_mut(base, encoded, add(b, base), i + 1, upper_bound)

RECURSIVE brute_force_loop(_, _, _, _, _)
\* the for loop of brute_force at iteration i with accumulator b
brute_force_loop(base, encoded, b, i, upper_bound) ==
  IF i >= upper_bound THEN Err(ElGamalDecryptionError)
  ELSE IF b = encoded THEN Ok(i)
  ELSE brute_force_loop(base, encoded, add(b, base), i + 1, upper_bound)

brute_force(base, encoded, lower_bound, upper_bound) ==
  brute_force_loop(base, encoded, mul(base, from_u64(lower_bound)),
                   lower_bound, upper_bound)

elgamal_decrypt_hinted(base, ctext, sec_key, lower_bound, upper_bound) ==
  brute_force(base, elgamal_decrypt_elem(ctext, sec_key), lower_bound, upper_bound)

\* brute_force before the first iteration: b is base times the lower bound;
\* comparisons counts the evaluations of "b == *encoded"
brute_force_start(base, lower_bound) ==
  [b |-> mul(base, from_u64(lower_bound)), i |-> lower_bound,
   comparisons |-> 0, done |-> FALSE, res |-> Ok(0)]

\* mutant: base is added to b before the comparison
brute_force_iter_mut(st, base, encoded, upper_bound) ==
  IF st.i >= upper_bound
  THEN [st EXCEPT !.done = TRUE, !.res = Err(ElGamalDecryptionError)]
  ELSE IF add(st.b, base) = encoded
       THEN [st EXCEPT !.comparisons = @ + 1, !.done = TRUE, !.res = Ok(st.i)]
       ELSE [st EXCEPT !.comparisons = @ + 1, !.b = add(@, base), !.i = @ + 1]

\* one pass of "for i in lower_bound..upper_bound": the range is used up and
\* the function returns the error, or b is compared with encoded and either
\* i is returned or base is added to b
brute_force_iter(st, base, encoded, upper_bound) ==
  IF st.i >= upper_bound
  THEN [st EXCEPT !.done = TRUE, !.res = Err(ElGamalDecryptionError)]
  ELSE IF st.b = encoded
       THEN [st EXCEPT !.comparisons = @ + 1, !.done = TRUE, !.res = Ok(st.i)]
       ELSE [st EXCEPT !.comparisons = @ + 1, !.b = add(@, base), !.i = @ + 1]


\* --------------------------------------------------------------------- BLS
\* largest number of signers of a session
MaxKeys == 2

\* messages of the signature tests
Msgs == {"this is a message", "this is another message",
         "this message has not been signed"}

\* a fatal assertion failure (assert!)
Panic == [ok |-> FALSE, val |-> 0, err |-> "panic"]

\* mark of a hash input that has not been hashed yet
NotHashed == 0 - 1

Min(a, b) == IF a <= b THEN a ELSE b

\* HashFnc followed by G2::from_hash is a fixed function of the message whose
\* values are unknown: a table filled on first use.  H ranges over the tables
\* that agree with tab and also hold a value for every message of ms.
HashFnc(tab, ms) ==
  { [m \in Msgs |-> IF tab[m] # NotHashed THEN tab[m]
                    ELSE IF m \in ms THEN f[m]
                    ELSE NotHashed] :
    f \in [{m \in ms : tab[m] = NotHashed} -> GroupSet] }

\* HashFnc followed by ScalarField::from_hash over i || D, D the digest of the
\* compressed keys: a fixed function of the ordered key list, filled on first
\* use.  The tables that agree with tab and hold the scalars of ver_keys.
HashFncScalars(tab, ver_keys) ==
  IF ver_keys \in DOMAIN tab THEN {tab}
  ELSE { [ks \in (DOMAIN tab) \cup {ver_keys} |->
            IF ks = ver_keys THEN t ELSE tab[ks]] :
         t \in [1 .. Len(ver_keys) -> ScalarSet] }

\* mutant: the public key is derived from the square of the secret key
bls_gen_keys_mut(sec_key) ==
  [sk |-> sec_key, pk |-> mul(get_base, s_mul(sec_key, sec_key))]

bls_gen_keys(sec_key) == [sk |-> sec_key, pk |-> mul(get_base, sec_key)]

bls_hash_message(H, message) == H[message]

bls_sign(H, signing_key, message) ==
  mul(bls_hash_message(H, message), signing_key)

\* mutant: the arguments of the two pairings are crossed
bls_verify_mut(H, ver_key, message, signature) ==
  LET hashed == bls_hash_message(H, message)
      a == pairing(ver_key, signature)
      b == pairing(get_base, hashed)
  IN IF a = b THEN Ok(0) ELSE Err(SignatureError)

bls_verify(H, ver_key, message, signature) ==
  LET hashed == bls_hash_message(H, message)
      a == pairing(get_base, signature)
      b == pairing(ver_key, hashed)
  IN IF a = b THEN Ok(0) ELSE Err(SignatureError)

bls_hash_pubkeys_to_scalars(HS, ver_keys) == HS[ver_keys]

RECURSIVE sum_loop(_, _)
\* the loop "for s in signatures { sig = sig.add(s) }" over the first k
sum_loop(xs, k) ==
  IF k = 0 THEN get_identity ELSE add(sum_loop(xs, k - 1), xs[k])

RECURSIVE zip_mul_sum(_, _, _)
\* the loop "for (t, x) in scalars.iter().zip(xs) { acc = acc.add(x.mul(t)) }"
\* over the first k pairs
zip_mul_sum(scalars, xs, k) ==
  IF k = 0 THEN get_identity
  ELSE add(zip_mul_sum(scalars, xs, k - 1), mul(xs[k], scalars[k]))

\* mutant: the coefficients are paired with the signatures in reverse order
bls_aggregate_mut(HS, ver_keys, signatures) ==
  IF Len(ver_keys) # Len(signatures) THEN Panic
  ELSE LET scalars == bls_hash_pubkeys_to_scalars(HS, ver_keys)
           n == Len(scalars)
       IN  Ok(zip_mul_sum([i \in 1 .. n |-> scalars[n + 1 - i]], signatures,
                          Min(n, Len(signatures))))

bls_aggregate(HS, ver_keys, signatures) ==
  IF Len(ver_keys) # Len(signatures) THEN Panic
  ELSE LET scalars == bls_hash_pubkeys_to_scalars(HS, ver_keys) IN
       Ok(zip_mul_sum(scalars, signatures, Min(Len(scalars), Len(signatures))))

\* mutant: the keys are added without their coefficients
bls_verify_aggregated_mut(H, HS, ver_keys, message, agg_signature) ==
  bls_verify(H, sum_loop(ver_keys, Len(ver_keys)), message, agg_signature)

bls_verify_aggregated(H, HS, ver_keys, message, agg_signature) ==
  LET scalars == bls_hash_pubkeys_to_scalars(HS, ver_keys)
      agg_pub_key == zip_mul_sum(scalars, ver_keys,
                                 Min(Len(scalars), Len(ver_keys)))
  IN bls_verify(H, agg_pub_key, message, agg_signature)

\* mutant: the last signature is left out of the sum
bls_add_signatures_mut(signatures) ==
  sum_loop(signatures, IF Len(signatures) = 0 THEN 0 ELSE Len(signatures) - 1)

bls_add_signatures(signatures) == sum_loop(signatures, Len(signatures))

RECURSIVE zip_pairing_sum(_, _, _, _)
\* the loop "for (pk, m) in ver_keys.iter().zip(messages)" over the first k
zip_pairing_sum(H, ver_keys, messages, k) ==
  IF k = 0 THEN get_identity
  ELSE add(zip_pairing_sum(H, ver_keys, messages, k - 1),
           pairing(ver_keys[k], bls_hash_message(H, messages[k])))

\* mutant: the last (key, message) pair is left out of the product
bls_batch_verify_added_signatures_mut(H, ver_keys, messages, signature) ==
  LET a == pairing(get_base, signature)
      n == Min(Len(ver_keys), Len(messages))
      b == zip_pairing_sum(H, ver_keys, messages, IF n = 0 THEN 0 ELSE n - 1)
  IN IF a = b THEN Ok(0) ELSE Err(SignatureError)

bls_batch_verify_added_signatures(H, ver_keys, messages, signature) ==
  LET a == pairing(get_base, signature)
      b == zip_pairing_sum(H, ver_keys, messages,
                           Min(Len(ver_keys), Len(messages)))
  IN IF a = b THEN Ok(0) ELSE Err(SignatureError)

\* mutant: a batch without signatures is rejected
bls_batch_verify_mut(H, ver_keys, messages, signatures) ==
  IF ~(Len(ver_keys) = Len(messages) /\ Len(ver_keys) = Len(signatures))
  THEN Panic
  ELSE IF signatures = <<>> THEN Err(SignatureError)
  ELSE bls_batch_verify_added_signatures(H, ver_keys, messages,
                                         bls_add_signatures(signatures))

bls_batch_verify(H, ver_keys, messages, signatures) ==
  IF ~(Len(ver_keys) = Len(messages) /\ Len(ver_keys) = Len(signatures))
  THEN Panic
  ELSE bls_batch_verify_added_signatures(H, ver_keys, messages,
                                         bls_add_signatures(signatures))

\* ------------------------------------------------ joint proof: randomness
\* largest number of attributes of a credential
MaxAttrs == 2

\* The caller's random generator is a seeded stream: the seed fixes every
\* scalar it will return.  The stream of a seed is a polynomial of degree two
\* in the position, so any three draws take every combination of values as
\* the seed ranges over Seeds.
Seeds == [1 .. 3 -> ScalarSet]

\* the scalar the stream of seed holds at position pos
rng_at(seed, pos) ==
  (seed[1] + seed[2] * pos + seed[3] * pos * pos) % Q

\* the k-th next result of Scalar::random_scalar(prng)
random_scalar(prng, k) == rng_at(prng.seed, prng.pos + k - 1)

\* the generator after k calls of Scalar::random_scalar
rng_after(prng, k) == [prng EXCEPT !.pos = @ + k]

\* Sha512 followed by Scalar::from_hash is a fixed function of the hashed
\* bytes whose values are unknown: a table filled on first use.  The tables
\* that agree with tab and hold a scalar for the input key.
HashToScalar(tab, key) ==
  IF key \in DOMAIN tab THEN {tab}
  ELSE { [k \in (DOMAIN tab) \cup {key} |-> IF k = key THEN c ELSE tab[k]] :
         c \in ScalarSet }

RECURSIVE positions(_, _, _)
\* the positions among the first k of bitmap that hold b, in order
positions(bitmap, b, k) ==
  IF k = 0 THEN <<>>
  ELSE IF bitmap[k] = b THEN Append(positions(bitmap, b, k - 1), k)
       ELSE positions(bitmap, b, k - 1)

\* the elements of xs at the positions of bitmap that hold b, in order
select(xs, bitmap, b) ==
  LET ps == positions(bitmap, b, Min(Len(xs), Len(bitmap)))
  IN  [j \in 1 .. Len(ps) |-> xs[ps[j]]]

\* ------------------------------------------- credential engine (external)
\* gen_issuer_keys(prng, num_attrs): secret x, z, y_i and the generators;
\* public gen2, X2 = x gen2, Z1 = z gen1, Z2 = z gen2, Y2_i = y_i gen2.
\* Draws num_attrs + 4 scalars.
gen_issuer_keys(prng, num_attrs) ==
  LET x    == random_scalar(prng, 1)
      z    == random_scalar(prng, 2)
      gen1 == mul(get_base, random_scalar(prng, 3))
      gen2 == mul(get_base, random_scalar(prng, 4))
      y    == [i \in 1 .. num_attrs |-> random_scalar(prng, 4 + i)]
  IN  [pk |-> [gen2 |-> gen2, xx2 |-> mul(gen2, x), zz1 |-> mul(gen1, z),
               zz2 |-> mul(gen2, z),
               yy2 |-> [i \in 1 .. num_attrs |-> mul(gen2, y[i])]],
       sk |-> [gen1 |-> gen1, x |-> x, y |-> y]]

\* gen_user_keys(prng, issuer_pk): one scalar, the public key is sk Z1
gen_user_keys(prng, issuer_pk) ==
  LET sk == random_scalar(prng, 1)
  IN  [pk |-> mul(issuer_pk.zz1, sk), sk |-> sk]

\* issuer_sign(prng, issuer_sk, user_pk, attrs): one scalar u,
\* sigma1 = u gen1, sigma2 = u ((x + sum y_i attrs_i) gen1 + user_pk)
issuer_sign(prng, issuer_sk, user_pk, attrs) ==
  LET u  == random_scalar(prng, 1)
      e  == s_add(issuer_sk.x,
                  zip_mul_sum(attrs, issuer_sk.y,
                              Min(Len(attrs), Len(issuer_sk.y))))
      cc == add(mul(issuer_sk.gen1, e), user_pk)
  IN  [sigma1 |-> mul(issuer_sk.gen1, u), sigma2 |-> mul(cc, u)]

\* compute_challenge(commitment): the hash of the commitment of the reveal
\* proof
compute_challenge(HC, commitment) == HC[<<commitment>>]

\* the commitment of the reveal proof: blinds for t, for the user's secret
\* key and for every hidden attribute (draws 3, 4 and the following)
reveal_commitment(prng, issuer_pk, bitmap) ==
  LET hidden == select(issuer_pk.yy2, bitmap, FALSE)
      gamma  == [j \in 1 .. Len(hidden) |-> random_scalar(prng, 4 + j)]
  IN  add(add(mul(issuer_pk.gen2, random_scalar(prng, 3)),
              mul(issuer_pk.zz2, random_scalar(prng, 4))),
          zip_mul_sum(gamma, hidden, Len(hidden)))

\* reveal_attrs(prng, user_sk, issuer_pk, sig, attrs, bitmap): the signature
\* randomized by r and t, and a proof of knowledge of t, the user's secret
\* key and the hidden attributes; the attributes at the true positions of
\* bitmap are the revealed ones.  Draws 4 scalars and one per hidden attribute.
reveal_attrs(prng, HC, user_sk, issuer_pk, sig, attrs, bitmap) ==
  LET r      == random_scalar(prng, 1)
      t      == random_scalar(prng, 2)
      hidden == select(attrs, bitmap, FALSE)
      com    == reveal_commitment(prng, issuer_pk, bitmap)
      c      == compute_challenge(HC, com)
  IN  [sig |-> [sigma1 |-> mul(sig.sigma1, r),
                sigma2 |-> mul(add(sig.sigma2, mul(sig.sigma1, t)), r)],
       pok |-> [commitment    |-> com,
                response_t    |-> s_add(s_mul(c, t), random_scalar(prng, 3)),
                response_sk   |-> s_add(s_mul(c, user_sk), random_scalar(prng, 4)),
                response_attrs |->
                  [j \in 1 .. Len(hidden) |->
                     s_add(s_mul(c, hidden[j]), random_scalar(prng, 4 + j))]]]

\* ------------------------------------------------- joint proof (PoKAttrs)
\* the bytes hashed by pok_attrs_challenge: the attribute commitments, then
\* both components of every randomness commitment
challenge_input(attr_coms, rand_coms) ==
  LET flat == [i \in 1 .. 2 * Len(rand_coms) |->
                 rand_coms[(i + 1) \div 2][2 - (i % 2)]]
  IN  attr_coms \o flat

pok_attrs_challenge(HP, attr_coms, rand_coms) ==
  HP[challenge_input(attr_coms, rand_coms)]

\* the bitmap-true positions visited by "cred_issuer_pk.yy2.iter().zip(bitmap)"
shown_positions(cred_issuer_pk, bitmap) ==
  positions(bitmap, TRUE, Min(Len(cred_issuer_pk.yy2), Len(bitmap)))

\* mutant: for every shown position the randomness blind is drawn first
pok_attrs_commit_mut(prng, cred_issuer_pk, asset_issuer_pk, bitmap) ==
  LET shown      == shown_positions(cred_issuer_pk, bitmap)
      attr_blind == [j \in 1 .. Len(shown) |-> random_scalar(prng, 2 * j)]
      rand_blind == [j \in 1 .. Len(shown) |-> random_scalar(prng, 2 * j - 1)]
      com_y2     == [j \in 1 .. Len(shown) |->
                       mul(cred_issuer_pk.yy2[shown[j]], attr_blind[j])]
  IN  [attr_blind |-> attr_blind,
       rand_blind |-> rand_blind,
       attr_commitments |->
         [j \in 1 .. Len(shown) |-> mul(get_base, attr_blind[j])],
       attr_blind_cred_commitment |-> sum_loop(com_y2, Len(shown)),
       rand_commitments |->
         [j \in 1 .. Len(shown) |->
            <<mul(get_base, rand_blind[j]), mul(asset_issuer_pk, rand_blind[j])>>]]

\* the blinding factors and commitments of pok_attrs_prove: for every shown
\* position the generator is asked for the attribute blind and then for the
\* randomness blind
pok_attrs_commit(prng, cred_issuer_pk, asset_issuer_pk, bitmap) ==
  LET shown      == shown_positions(cred_issuer_pk, bitmap)
      attr_blind == [j \in 1 .. Len(shown) |-> random_scalar(prng, 2 * j - 1)]
      rand_blind == [j \in 1 .. Len(shown) |-> random_scalar(prng, 2 * j)]
      com_y2     == [j \in 1 .. Len(shown) |->
                       mul(cred_issuer_pk.yy2[shown[j]], attr_blind[j])]
  IN  [attr_blind |-> attr_blind,
       rand_blind |-> rand_blind,
       attr_commitments |->
         [j \in 1 .. Len(shown) |-> mul(get_base, attr_blind[j])],
       attr_blind_cred_commitment |-> sum_loop(com_y2, Len(shown)),
       rand_commitments |->
         [j \in 1 .. Len(shown) |->
            <<mul(get_base, rand_blind[j]), mul(asset_issuer_pk, rand_blind[j])>>]]

\* mutant: the blind is subtracted from the response
pok_responses_mut(c, secrets, blinds) ==
  [j \in 1 .. Min(Len(secrets), Len(blinds)) |->
     s_sub(s_mul(secrets[j], c), blinds[j])]

\* "for (x, blind) in secrets.iter().zip(blinds) { push(x.mul(c).add(blind)) }"
pok_responses(c, secrets, blinds) ==
  [j \in 1 .. Min(Len(secrets), Len(blinds)) |->
     s_add(s_mul(secrets[j], c), blinds[j])]

pok_attrs_prove(prng, HP, attrs, cred_issuer_pk, asset_issuer_pk, ctexts_rand, bitmap) ==
  LET m   == Len(attrs)
      com == pok_attrs_commit(prng, cred_issuer_pk, asset_issuer_pk, bitmap)
      c   == pok_attrs_challenge(HP, com.attr_commitments, com.rand_commitments)
  IN  IF m # Len(com.rand_blind)
      THEN Err(ParameterError)
      ELSE Ok([attr_blind_cred_commitment |-> com.attr_blind_cred_commitment,
               attr_commitments |-> com.attr_commitments,
               attr_responses   |-> pok_responses(c, attrs, com.attr_blind),
               rand_commitments |-> com.rand_commitments,
               rand_responses   |-> pok_responses(c, ctexts_rand, com.rand_blind)])

\* the generator after pok_attrs_prove: two draws per shown position
pok_attrs_prove_rng(prng, cred_issuer_pk, bitmap) ==
  rng_after(prng, 2 * Len(shown_positions(cred_issuer_pk, bitmap)))

\* the number of positions visited by the zip of verify_ciphertext
ctexts_checked(ctexts, pok_attrs) ==
  Min(Len(ctexts),
      Min(Min(Len(pok_attrs.rand_commitments), Len(pok_attrs.attr_commitments)),
          Min(Len(pok_attrs.rand_responses), Len(pok_attrs.attr_responses))))

\* the two equations verify_ciphertext checks at position i
verify_e1(challenge, ctexts, pok_attrs, i) ==
  add(mul(ctexts[i].e1, challenge), pok_attrs.rand_commitments[i][1])
    = mul(get_base, pok_attrs.rand_responses[i])

verify_e2(challenge, ctexts, pok_attrs, asset_issuer_public_key, i) ==
  add(add(mul(ctexts[i].e2, challenge), pok_attrs.rand_commitments[i][2]),
      pok_attrs.attr_commitments[i])
    = add(mul(get_base, pok_attrs.attr_responses[i]),
          mul(asset_issuer_public_key, pok_attrs.rand_responses[i]))

\* mutant: only the first equation is checked
verify_ciphertext_mut(challenge, ctexts, pok_attrs, asset_issuer_public_key) ==
  IF \A i \in 1 .. ctexts_checked(ctexts, pok_attrs) :
       verify_e1(challenge, ctexts, pok_attrs, i)
  THEN Ok(0)
  ELSE Err(IdentityRevealVerificationError)

verify_ciphertext(challenge, ctexts, pok_attrs, asset_issuer_public_key) ==
  IF \A i \in 1 .. ctexts_checked(ctexts, pok_attrs) :
       /\ verify_e1(challenge, ctexts, pok_attrs, i)
       /\ verify_e2(challenge, ctexts, pok_attrs, asset_issuer_public_key, i)
  THEN Ok(0)
  ELSE Err(IdentityRevealVerificationError)

\* the loop of constant_terms_addition and of verify_credential: the sum of
\* yy2_i times the next response over the positions of the zip of bitmap with
\* yy2 that hold b; responses.next().unwrap() panics when they run out
response_sum(cred_issuer_public_key, bitmap, b, responses) ==
  LET ps == positions(bitmap, b,
                      Min(Len(bitmap), Len(cred_issuer_public_key.yy2)))
      ts == [j \in 1 .. Len(ps) |->
               mul(cred_issuer_public_key.yy2[ps[j]], responses[j])]
  IN  IF Len(ps) > Len(responses) THEN Panic ELSE Ok(sum_loop(ts, Len(ps)))

constant_terms_addition(challenge, reveal_proof, cred_issuer_public_key, bitmap) ==
  LET q0 == sub(mul(cred_issuer_public_key.xx2, challenge),
                reveal_proof.pok.commitment)
      q1 == add(q0, mul(cred_issuer_public_key.gen2, reveal_proof.pok.response_t))
      q2 == add(q1, mul(cred_issuer_public_key.zz2, reveal_proof.pok.response_sk))
      hs == response_sum(cred_issuer_public_key, bitmap, FALSE,
                         reveal_proof.pok.response_attrs)
  IN  IF hs.ok THEN Ok(add(q2, hs.val)) ELSE Panic

verify_credential(challenge, HC, reveal_proof, pok_attrs, cred_issuer_public_key, bitmap) ==
  LET cred_challenge    == compute_challenge(HC, reveal_proof.pok.commitment)
      cred_lhs_constant == constant_terms_addition(cred_challenge, reveal_proof,
                                                   cred_issuer_public_key, bitmap)
      cred_rhs_constant == mul(cred_issuer_public_key.gen2, cred_challenge)
      rs == response_sum(cred_issuer_public_key, bitmap, TRUE,
                         pok_attrs.attr_responses)
      blinded_attr_sum == mul(sub(rs.val, pok_attrs.attr_blind_cred_commitment),
                              cred_challenge)
      lhs == add(mul(cred_lhs_constant.val, challenge), blinded_attr_sum)
      rhs == mul(cred_rhs_constant, challenge)
  IN  IF ~cred_lhs_constant.ok \/ ~rs.ok THEN Panic
      ELSE IF pairing(reveal_proof.sig.sigma1, lhs)
                = pairing(reveal_proof.sig.sigma2, rhs)
           THEN Ok(0)
           ELSE Err(IdentityRevealVerificationError)

pok_attrs_verify(HP, HC, reveal_proof, ctexts, pok_attrs, cred_issuer_public_key, asset_issuer_public_key, bitmap) ==
  LET challenge == pok_attrs_challenge(HP, pok_attrs.attr_commitments,
                                       pok_attrs.rand_commitments)
      vc == verify_ciphertext(challenge, ctexts, pok_attrs,
                              asset_issuer_public_key)
  IN  IF ~vc.ok THEN vc
      ELSE verify_credential(challenge, HC, reveal_proof, pok_attrs,
                             cred_issuer_public_key, bitmap)

\* --------------------------------------------------------------- encodings
\* Widths are scaled down: a byte has ByteBase values (256 in the code), a
\* machine word LimbBytes bytes (8), a scalar FrLimbs words (4), a base-field
\* element FqLimbs words (6). The order of words and bytes is the code's.
ByteBase == 16

LimbBytes == 2

FrLimbs == 2

FqLimbs == 2

\* the modulus of the base field of the Fq12 coefficients: the largest prime
\* that fits FqLimbs words
FqModulus == 65521

Bytes == 0 .. ByteBase - 1

RECURSIVE Pow(_, _)
Pow(b, e) == IF e = 0 THEN 1 ELSE b * Pow(b, e - 1)

LimbBase == Pow(ByteBase, LimbBytes)

\* Option::None
None == [ok |-> FALSE, val |-> 0, err |-> "None"]

RECURSIVE concat(_, _)
concat(seqs, k) == IF k = 0 THEN <<>> ELSE concat(seqs, k - 1) \o seqs[k]

\* "array[i] = ((n >> 8 * (7 - i)) & 0xFF) as u8"
u64_to_bigendian_u8array(n) ==
  [i \in 1 .. LimbBytes |-> (n \div Pow(ByteBase, LimbBytes - i)) % ByteBase]

\* "u64::from(array[0]) << 56 | ... | u64::from(array[7])" on the first k bytes
RECURSIVE bigendian_value(_, _)
bigendian_value(array, k) ==
  IF k = 0 THEN 0 ELSE bigendian_value(array, k - 1) * ByteBase + array[k]

\* indexing past the end of the slice panics
u8_bigendian_slice_to_u64(array) ==
  IF Len(array) < LimbBytes THEN Panic
  ELSE Ok(bigendian_value(array, LimbBytes))

\* FrRepr::from / into_repr: the words of the value, least significant first
into_repr(x, limbs) ==
  [i \in 1 .. limbs |-> (x \div Pow(LimbBase, i - 1)) % LimbBase]

RECURSIVE repr_value(_, _)
repr_value(repr, k) ==
  IF k = 0 THEN 0 ELSE repr_value(repr, k - 1) + repr[k] * Pow(LimbBase, k - 1)

\* from_repr: an error when the words are not below the modulus
from_repr(repr, modulus) ==
  IF repr_value(repr, Len(repr)) < modulus
  THEN Ok(repr_value(repr, Len(repr)))
  ELSE Err("NotInField")

\* the words read from consecutive LimbBytes-byte slices of v
limbs_of(v, limbs) ==
  [i \in 1 .. limbs |->
     bigendian_value(SubSeq(v, (i - 1) * LimbBytes + 1, i * LimbBytes), LimbBytes)]

\* the words written one after the other, each big-endian
bytes_of(repr) ==
  concat([i \in 1 .. Len(repr) |-> u64_to_bigendian_u8array(repr[i])], Len(repr))

\* BLSScalar::to_bytes
to_bytes(s) == bytes_of(into_repr(s, FrLimbs))

\* BLSScalar::from_bytes: "&bytes[i * 8..i * 8 + 8]" panics on a short slice
\* and "from_repr(fr_repr).unwrap()" on words that are no scalar
from_bytes(bytes) ==
  IF Len(bytes) < FrLimbs * LimbBytes THEN Panic
  ELSE LET fr == from_repr(limbs_of(bytes, FrLimbs), Q)
       IN  IF fr.ok THEN Ok(fr.val) ELSE Panic

\* the compressed lengths of G1, G2 and Gt elements (48, 96, 576)
G1_COMPRESSED_LEN == FqLimbs * LimbBytes

G2_COMPRESSED_LEN == 2 * G1_COMPRESSED_LEN

Gt_COMPRESSED_LEN == 12 * FqLimbs * LimbBytes

\* "into_affine().into_compressed()": a coordinate of len bytes, big-endian;
\* the model takes the discrete logarithm for the coordinate, and for G2 the
\* first of the two coordinates is zero
point_to_compressed_bytes(x, len) ==
  [i \in 1 .. len |->
     IF i <= len - G1_COMPRESSED_LEN THEN 0
     ELSE (x \div Pow(ByteBase, len - i)) % ByteBase]

\* "compressed.into_affine()": an error unless the bytes are the encoding of
\* an element
into_affine(compressed, len) ==
  IF \E x \in GroupSet : point_to_compressed_bytes(x, len) = compressed
  THEN Ok(CHOOSE x \in GroupSet : point_to_compressed_bytes(x, len) = compressed)
  ELSE Err("GroupDecodingError")

\* BLSG1 / BLSG2 from_compressed_bytes: the first len bytes are copied
\* ("&bytes[..48]", "bytes[i]" for i < 96: a panic on a short slice) and
\* "into_affine().unwrap()" panics on an error
point_from_compressed_bytes(bytes, len) ==
  IF Len(bytes) < len THEN Panic
  ELSE LET affine == into_affine(SubSeq(bytes, 1, len), len)
       IN  IF affine.ok THEN Ok(affine.val) ELSE Panic

\* build_fq: None unless v has the length of one field element and its
\* words are below the modulus
build_fq(v) ==
  IF Len(v) # FqLimbs * LimbBytes THEN None
  ELSE LET fq == from_repr(limbs_of(v, FqLimbs), FqModulus)
       IN  IF fq.ok THEN Ok(fq.val) ELSE None

\* build_fq2, build_fq6 and from_compressed_bytes give None as soon as one
\* coefficient is None ("build_fq(..)?"); every coefficient is built once
build_fq2(v) ==
  LET n == Len(v) \div 2
  IN  CHOOSE res \in
        {IF ~c0.ok \/ ~c1.ok THEN None ELSE Ok([c0 |-> c0.val, c1 |-> c1.val]) :
           c0 \in {build_fq(SubSeq(v, 1, n))},
           c1 \in {build_fq(SubSeq(v, n + 1, Len(v)))}} : TRUE

\* mutant: the second and third coefficients are read in the other order
build_fq6_mut(v) ==
  LET n == Len(v) \div 3
  IN  CHOOSE res \in
        {IF ~c0.ok \/ ~c1.ok \/ ~c2.ok THEN None
         ELSE Ok([c0 |-> c0.val, c1 |-> c1.val, c2 |-> c2.val]) :
           c0 \in {build_fq2(SubSeq(v, 1, n))},
           c1 \in {build_fq2(SubSeq(v, 2 * n + 1, Len(v)))},
           c2 \in {build_fq2(SubSeq(v, n + 1, 2 * n))}} : TRUE

build_fq6(v) ==
  LET n == Len(v) \div 3
  IN  CHOOSE res \in
        {IF ~c0.ok \/ ~c1.ok \/ ~c2.ok THEN None
         ELSE Ok([c0 |-> c0.val, c1 |-> c1.val, c2 |-> c2.val]) :
           c0 \in {build_fq2(SubSeq(v, 1, n))},
           c1 \in {build_fq2(SubSeq(v, n + 1, 2 * n))},
           c2 \in {build_fq2(SubSeq(v, 2 * n + 1, Len(v)))}} : TRUE

\* BLSGt::from_compressed_bytes
gt_from_compressed_bytes(v) ==
  CHOOSE res \in
    {IF ~c0.ok \/ ~c1.ok THEN None ELSE Ok([c0 |-> c0.val, c1 |-> c1.val]) :
       c0 \in {build_fq6(SubSeq(v, 1, Len(v) \div 2))},
       c1 \in {build_fq6(SubSeq(v, Len(v) \div 2 + 1, Len(v)))}} : TRUE

\* the twelve coefficients in the order BLSGt::to_compressed_bytes writes them
gt_coefficients(x) ==
  <<x.c0.c0.c0, x.c0.c0.c1, x.c0.c1.c0, x.c0.c1.c1, x.c0.c2.c0, x.c0.c2.c1,
    x.c1.c0.c0, x.c1.c0.c1, x.c1.c1.c0, x.c1.c1.c1, x.c1.c2.c0, x.c1.c2.c1>>

\* BLSGt::to_compressed_bytes: the words of every coefficient, least
\* significant first, each word big-endian
gt_to_compressed_bytes(x) ==
  LET v == concat([k \in 1 .. 12 |-> into_repr(gt_coefficients(x)[k], FqLimbs)], 12)
  IN  bytes_of(v)

\* ----------------------------------------------------- serialized forms
\* base64 at the scaled widths: three bytes make four characters, a last
\* group of one or two bytes makes two or three characters and is filled
\* with the padding character
CharBase == 8

PadChar == CharBase

DeserializationError == "DeserializationError"

RECURSIVE digits(_, _, _)
digits(v, base, k) ==
  IF k = 0 THEN <<>> ELSE Append(digits(v \div base, base, k - 1), v % base)

RECURSIVE digits_value(_, _, _)
digits_value(ds, base, k) ==
  IF k = 0 THEN 0 ELSE digits_value(ds, base, k - 1) * base + ds[k]

\* the factor that aligns k bytes to k + 1 characters
b64_shift(k) == Pow(CharBase, k + 1) \div Pow(ByteBase, k)

b64enc_group(group) ==
  LET k == Len(group)
  IN  digits(digits_value(group, ByteBase, k) * b64_shift(k), CharBase, k + 1)
        \o [i \in 1 .. 3 - k |-> PadChar]

b64enc(bytes) ==
  LET n == (Len(bytes) + 2) \div 3
  IN  concat([g \in 1 .. n |->
                b64enc_group(SubSeq(bytes, 3 * g - 2, Min(3 * g, Len(bytes))))], n)

\* the bytes of one group of four characters, or an error
b64dec_group(group, last) ==
  LET pads == Cardinality({i \in 1 .. 4 : group[i] = PadChar})
      k    == 3 - pads
      v    == digits_value(group, CharBase, k + 1)
  IN  IF \/ pads > 2
         \/ (pads > 0 /\ ~last)
         \/ \E i \in 1 .. 4 : (group[i] = PadChar) # (i > k + 1)
         \/ v % b64_shift(k) # 0
      THEN Err(DeserializationError)
      ELSE Ok(digits(v \div b64_shift(k), ByteBase, k))

b64dec(text) ==
  LET n  == Len(text) \div 4
      gs == [g \in 1 .. n |-> b64dec_group(SubSeq(text, 4 * g - 3, 4 * g), g = n)]
  IN  IF Len(text) % 4 # 0 \/ \E g \in 1 .. n : ~gs[g].ok
      THEN Err(DeserializationError)
      ELSE Ok(concat([g \in 1 .. n |-> gs[g].val], n))

\* Serialize: "if serializer.is_human_readable() { serialize_str(b64enc(bytes)) }
\* else { serialize_bytes(bytes) }"
serialize(bytes, human_readable) ==
  IF human_readable
  THEN [kind |-> "str", data |-> b64enc(bytes)]
  ELSE [kind |-> "bytes", data |-> bytes]

\* visit_bytes of the scalar visitor: "Ok(BLSScalar::from_bytes(v))"
scalar_visit_bytes(v) == from_bytes(v)

\* visit_bytes of the G1 and G2 visitors:
\* "Ok(BLSG1::from_compressed_bytes(v).unwrap())"
point_visit_bytes(v, len) == point_from_compressed_bytes(v, len)

\* visit_bytes of the Gt visitor: unwrap panics on None
gt_visit_bytes(v) ==
  CHOOSE res \in {IF x.ok THEN x ELSE Panic :
                    x \in {gt_from_compressed_bytes(v)}} : TRUE

\* visit_bytes of the visitor of a type ("Fr", "G1", "G2", "Gt")
visit_bytes(visitor, v) ==
  CASE visitor = "Fr" -> scalar_visit_bytes(v)
    [] visitor = "G1" -> point_visit_bytes(v, G1_COMPRESSED_LEN)
    [] visitor = "G2" -> point_visit_bytes(v, G2_COMPRESSED_LEN)
    [] OTHER          -> gt_visit_bytes(v)

\* Deserialize: deserialize_str hands a string to visit_str, which decodes the
\* base64 text ("map_err(serde::de::Error::custom)?") and calls visit_bytes;
\* deserialize_bytes hands the bytes to visit_bytes
deserialize(ser, human_readable, visitor) ==
  IF ser.kind = "str"
  THEN IF ~human_readable THEN Err(DeserializationError)
       ELSE CHOOSE res \in {IF bytes.ok THEN visit_bytes(visitor, bytes.val)
                            ELSE Err(DeserializationError) :
                              bytes \in {b64dec(ser.data)}} : TRUE
  ELSE IF human_readable THEN Err(DeserializationError)
       ELSE visit_bytes(visitor, ser.data)

\* ---------------------------------------------------------- multisignature
\* XfrKeyPair::generate: the public key of a secret key
xfr_generate(sec_key) == [sec_key |-> sec_key, pub_key |-> mul(get_base, sec_key)]

\* XfrSecretKey::sign (Ed25519): the signature is fixed by the secret key, the
\* public key handed to the signer and the message
xfr_sign(sec_key, message, public_key) ==
  [sec_key |-> sec_key, pub_key |-> public_key, message |-> message]

\* XfrKeyPair::sign
keypair_sign(keypair, msg) == xfr_sign(keypair.sec_key, msg, keypair.pub_key)

\* XfrPublicKey::verify (Ed25519): a signature verifies under the public key
\* of its signer and for the signed message only
xfr_verify(pub_key, message, signature) ==
  IF /\ signature.pub_key = pub_key
     /\ signature.message = message
     /\ mul(get_base, signature.sec_key) = pub_key
  THEN Ok(0)
  ELSE Err(SignatureError)

\* "for (pk, signature) in keylist.iter().zip(signatures) { pk.verify(..)?; }"
RECURSIVE verify_multisig_loop(_, _, _, _)
verify_multisig_loop(keylist, message, signatures, i) ==
  IF i > Min(Len(keylist), Len(signatures)) THEN Ok(0)
  ELSE LET r == xfr_verify(keylist[i], message, signatures[i])
       IN  IF ~r.ok THEN r
           ELSE verify_multisig_loop(keylist, message, signatures, i + 1)

\* mutant: the lengths are not compared
verify_multisig_mut(keylist, message, multi_signature) ==
  verify_multisig_loop(keylist, message, multi_signature.signatures, 1)

verify_multisig(keylist, message, multi_signature) ==
  IF Len(multi_signature.signatures) # Len(keylist)
  THEN Err(SignatureError)
  ELSE verify_multisig_loop(keylist, message, multi_signature.signatures, 1)

sign_multisig(keylist, message) ==
  [signatures |-> [i \in 1 .. Len(keylist) |-> keypair_sign(keylist[i], message)]]

\* ------------------------------------------- BLS: the coefficients' hash input
\* "for key in ver_keys { hasher.input(key.0.to_compressed_bytes()) }": the
\* bytes hashed into the digest of the key list
pubkeys_hash_input(ver_keys) ==
  concat([i \in 1 .. Len(ver_keys) |->
            point_to_compressed_bytes(ver_keys[i], G1_COMPRESSED_LEN)],
         Len(ver_keys))

\* "hasher.input(u64_to_bigendian_u8array(i as u64)); hasher.input(&hash[..])"
\* for i in 0..n: the index bytes followed by the digest, which stands here
\* as the digest of its input
scalar_hash_input(i, hash_input) ==
  [index |-> u64_to_bigendian_u8array(i), hash |-> <<"HashFnc", hash_input>>]

\* the hash inputs of the scalars of a key list, one per key
scalars_hash_inputs(ver_keys) ==
  [i \in 1 .. Len(ver_keys) |->
     scalar_hash_input(i - 1, pubkeys_hash_input(ver_keys))]

\* ------------------------------------------------ ElGamal: 32-bit decryption
\* width of u32 in the model: half the width of u64 (32 of 64 in the library)
U32Bits == U64Bits \div 2

\* u32::max_value()
u32_max_value == Pow(2, U32Bits) - 1

\* mutant: the upper bound is u32::max_value()
elgamal_decrypt_mut(base, ctext, sec_key) ==
  elgamal_decrypt_hinted(base, ctext, sec_key, 0, u32_max_value)

\* "elgamal_decrypt_hinted(base, ctext, sec_key, 0, (u32::max_value() as u64) + 1)"
elgamal_decrypt(base, ctext, sec_key) ==
  elgamal_decrypt_hinted(base, ctext, sec_key, 0, u32_max_value + 1)

\* "Ok(G::S::from_u64(elgamal_decrypt(base, ctext, sec_key)?))"
elgamal_decrypt_as_scalar(base, ctext, sec_key) ==
  LET r == elgamal_decrypt(base, ctext, sec_key)
  IN  IF r.ok THEN Ok(from_u64(r.val)) ELSE r

\* ------------------------------------------------- conversion note (AR to ABAR)
ZKProofVerificationError == "ZKProofVerificationError"

\* XfrAmount and XfrAssetType: a value in the clear or a confidential one
NonConfidential(v) == [conf |-> FALSE, val |-> v]

Confidential(v) == [conf |-> TRUE, val |-> v]

is_confidential(x) == x.conf

\* get_amount / get_asset_type: None for a confidential value
get_clear(x) == IF x.conf THEN None ELSE Ok(x.val)

\* the blind asset record of an owner for an asset record type, opened:
\* a confidential field holds a commitment to the value
open_asset_record(amount_conf, asset_conf, amount, asset_type, public_key) ==
  [blind_asset_record |->
     [amount |-> IF amount_conf THEN Confidential(mul(get_base, from_u64(amount)))
                 ELSE NonConfidential(amount),
      asset_type |-> IF asset_conf THEN Confidential(mul(get_base, asset_type))
                     ELSE NonConfidential(asset_type),
      public_key |-> public_key],
   amount |-> amount,
   asset_type |-> asset_type]

\* the commitment of the circuit to (blind, amount, asset type, public key):
\* a collision-free hash
commit(blind, amount, asset_type, pubkey_x) ==
  <<"commit", blind, amount, asset_type, pubkey_x>>

\* the public inputs of the circuit, in the order build_ar_to_abar_cs and
\* verify_ar_to_abar prepare them
online_inputs(amount, asset_type, commitment) ==
  <<from_u64(amount), asset_type, commitment>>

\* prove_ar_to_abar: a proof for the public inputs of the payee's secret
prove_ar_to_abar(payee_secret) ==
  [inputs |-> online_inputs(payee_secret.amount, payee_secret.asset_type,
                            commit(payee_secret.blind, from_u64(payee_secret.amount),
                                   payee_secret.asset_type, payee_secret.pubkey_x))]

\* the PLONK verifier accepts a proof for its own public inputs only
verify_ar_to_abar(payer_amount, payer_asset_type, commitment, proof) ==
  IF proof.inputs = online_inputs(payer_amount, payer_asset_type, commitment)
  THEN Ok(0)
  ELSE Err(ZKProofVerificationError)

\* ar_to_abar: the opened output record with a fresh blind, and its proof
ar_to_abar(blind, obar, abar_pubkey, enc_key) ==
  LET oabar == [amount |-> obar.amount, asset_type |-> obar.asset_type,
                pub_key |-> abar_pubkey, blind |-> blind,
                owner_memo |-> [enc_key |-> enc_key, blind |-> blind]]
  IN  [oabar |-> oabar,
       proof |-> prove_ar_to_abar([amount |-> oabar.amount, blind |-> oabar.blind,
                                   asset_type |-> oabar.asset_type,
                                   pubkey_x |-> oabar.pub_key])]

gen_ar_to_abar_body(blind, record, abar_pubkey, enc_key) ==
  LET r == ar_to_abar(blind, record, abar_pubkey, enc_key)
  IN  [input  |-> record.blind_asset_record,
       output |-> [commitment |-> commit(r.oabar.blind, from_u64(r.oabar.amount),
                                         r.oabar.asset_type, r.oabar.pub_key)],
       proof  |-> r.proof,
       memo   |-> r.oabar.owner_memo]

\* bincode::serialize(&body): the fields of the body in their order
body_serialize(body) ==
  <<body.input.amount, body.input.asset_type, body.input.public_key,
    body.output.commitment, body.proof.inputs, body.memo>>

gen_ar_to_abar_note(blind, record, bar_keypair, abar_pubkey, enc_key) ==
  LET body == gen_ar_to_abar_body(blind, record, abar_pubkey, enc_key)
  IN  [body |-> body, signature |-> keypair_sign(bar_keypair, body_serialize(body))]

\* mutant: the confidentiality of the asset type is not looked at
verify_ar_to_abar_body_mut(body) ==
  IF is_confidential(body.input.amount)
  THEN Err(ParameterError)
  ELSE verify_ar_to_abar(body.input.amount.val, body.input.asset_type.val,
                         body.output.commitment, body.proof)

verify_ar_to_abar_body(body) ==
  IF is_confidential(body.input.amount) \/ is_confidential(body.input.asset_type)
  THEN Err(ParameterError)
  ELSE verify_ar_to_abar(get_clear(body.input.amount).val,
                         get_clear(body.input.asset_type).val,
                         body.output.commitment, body.proof)

verify_ar_to_abar_note(note) ==
  LET sig == xfr_verify(note.body.input.public_key, body_serialize(note.body),
                        note.signature)
  IN  IF ~sig.ok THEN sig ELSE verify_ar_to_abar_body(note.body)

\* ------------------------------------------- confidential transaction
\* Widths are scaled as for the encodings: a u32 takes half the bytes of a
\* machine word (4 in the code), a Ristretto scalar FrLimbs words (32 bytes).
TxAmountLen == LimbBytes \div 2

TxBlindLen == FrLimbs * LimbBytes

\* "unlocked.split_at(5)": one byte more than the four of the amount
TxSplit == TxAmountLen + 1

\* be_u8_from_u32: "fixed 4 bytes in big endian"
be_u8_from_u32(n) ==
  [i \in 1 .. TxAmountLen |-> (n \div Pow(ByteBase, TxAmountLen - i)) % ByteBase]

\* Scalar::to_bytes: the bytes of the scalar, least significant first
scalar_to_bytes(x) ==
  [i \in 1 .. TxBlindLen |-> (x \div Pow(ByteBase, i - 1)) % ByteBase]

RECURSIVE littleendian_value(_, _)
littleendian_value(bytes, k) ==
  IF k = 0 THEN 0
  ELSE littleendian_value(bytes, k - 1) + bytes[k] * Pow(ByteBase, k - 1)

\* Scalar::from_bits: the scalar with these bytes
scalar_from_bits(bytes) == littleendian_value(bytes, TxBlindLen)

\* slice_to_fixed32 belongs to another crate. On a slice of the full length
\* it is the array of its bytes; on a shorter slice it either panics or fills
\* the array from one end or the other.
slice_to_fixed32(slice) ==
  IF Len(slice) >= TxBlindLen THEN {Ok(SubSeq(slice, 1, TxBlindLen))}
  ELSE LET zeros == [i \in 1 .. TxBlindLen - Len(slice) |-> 0]
       IN  {Panic, Ok(slice \o zeros), Ok(zeros \o slice)}

\* Lockbox::lock and unlock: the box opens to the locked bytes under the
\* secret key of the public key it was locked for
lockbox_lock(dest_pk, message) == [pk |-> dest_pk, message |-> message]

lockbox_unlock(lbox, sk) ==
  IF mul(get_base, sk) = lbox.pk THEN Ok(lbox.message) ELSE Panic

\* Transaction::new, step 7: the amount and then the blind, locked for the
\* receiver
Transaction_new(dest_pk, transfer_amount, blinding_t) ==
  [lockbox |-> lockbox_lock(dest_pk, be_u8_from_u32(transfer_amount)
                                       \o scalar_to_bytes(blinding_t))]

\* recover_plaintext up to the bytes handed to slice_to_fixed32: the amount
\* read from raw_amount[0..3], and raw_blind
recover_split(tx, sk) ==
  LET unlocked == lockbox_unlock(tx.lockbox, sk)
  IN  IF ~unlocked.ok \/ Len(unlocked.val) < TxSplit THEN Panic
      ELSE Ok([p_amount |-> bigendian_value(SubSeq(unlocked.val, 1, TxSplit),
                                            TxAmountLen),
               raw_blind |-> SubSeq(unlocked.val, TxSplit + 1, Len(unlocked.val))])

\* Transaction::recover_plaintext, with fixed the answer of slice_to_fixed32
recover_plaintext(tx, sk, fixed) ==
  LET parts == recover_split(tx, sk)
  IN  IF ~parts.ok \/ ~fixed.ok THEN Panic
      ELSE Ok(<<parts.val.p_amount, scalar_from_bits(fixed.val)>>)

\* ------------------------------------------------------------------- state
VARIABLES egKey, egCt, egCall,
          hashG2, hashFr, blsKeys, blsSigs, blsAgg, blsCall, blsPrev,
          prng, hashCred, hashPok, pokKeys, pokCred, pokCts, pokProof, pokCall,
          codecCall, xfrKeys, xfrMsig, xfrCall,
          arNote, arCall, txTx, txCall, loop

egVars == <<egKey, egCt, egCall, loop>>

blsVars == <<hashG2, hashFr, blsKeys, blsSigs, blsAgg, blsCall, blsPrev>>

pokVars == <<prng, hashCred, hashPok, pokKeys, pokCred, pokCts, pokProof, pokCall>>

xfrVars == <<xfrKeys, xfrMsig, xfrCall>>

arVars == <<arNote, arCall>>

txVars == <<txTx, txCall>>

vars == <<egVars, blsVars, pokVars, codecCall, xfrVars, arVars, txVars>>

\* the functions of one component touch no state of the others
EgFrame == UNCHANGED <<blsVars, pokVars, codecCall, xfrVars, arVars, txVars, loop>>

\* a loop of the algebra run step by step touches nothing but its own state
LoopFrame ==
  UNCHANGED <<egKey, egCt, egCall, blsVars, pokVars, codecCall, xfrVars, arVars, txVars>>

BlsFrame == UNCHANGED <<egVars, pokVars, codecCall, xfrVars, arVars, txVars>>

PokFrame == UNCHANGED <<egVars, blsVars, codecCall, xfrVars, arVars, txVars>>

CodecFrame == UNCHANGED <<egVars, blsVars, pokVars, xfrVars, arVars, txVars>>

XfrFrame == UNCHANGED <<egVars, blsVars, pokVars, codecCall, arVars, txVars>>

ArFrame == UNCHANGED <<egVars, blsVars, pokVars, codecCall, xfrVars, txVars>>

TxFrame == UNCHANGED <<egVars, blsVars, pokVars, codecCall, xfrVars, arVars>>

NoKey == [set |-> FALSE, base |-> 0, sk |-> 0, pk |-> 0]

NoCt == [set |-> FALSE, honest |-> FALSE, m |-> 0, r |-> 0, e1 |-> 0, e2 |-> 0]

NoCall == [op |-> "none", m |-> 0, lower |-> 0, upper |-> 0, res |-> Ok(0)]

\* no loop is running
NoLoop == [op |-> "none"]

EgInit ==
  /\ egKey = NoKey
  /\ egCt = NoCt
  /\ egCall = NoCall
  /\ loop = NoLoop

NoAgg == [op |-> "none", pks |-> <<>>, sigs |-> <<>>, out |-> Ok(0)]

NoBlsCall == [op |-> "none", pks |-> <<>>, msgs |-> <<>>, sigs |-> <<>>, res |-> Ok(0)]

BlsInit ==
  /\ hashG2 = [m \in Msgs |-> NotHashed]
  /\ hashFr = [ks \in {} |-> <<>>]
  /\ blsKeys = <<>>
  /\ blsSigs = <<>>
  /\ blsAgg = NoAgg
  /\ blsCall = NoBlsCall
  /\ blsPrev = NoBlsCall

\* ------------------------------------------------- joint proof: the session
NoPokKeys == [set |-> FALSE, issuer |-> <<>>, asset |-> <<>>, user |-> <<>>,
              attrs |-> <<>>]

NoPokCred == [set |-> FALSE, bitmap |-> <<>>, proof |-> <<>>]

NoPokCts == [set |-> FALSE, attrs |-> <<>>, rand |-> <<>>, ctexts |-> <<>>]

NoPokProof == [set |-> FALSE, res |-> Ok(0)]

NoPokCall == [op |-> "none", res |-> Ok(0)]

PokInit ==
  /\ prng = [seed |-> [i \in 1 .. 3 |-> 0], pos |-> 0]
  /\ hashCred = [k \in {} |-> 0]
  /\ hashPok = [k \in {} |-> 0]
  /\ pokKeys = NoPokKeys
  /\ pokCred = NoPokCred
  /\ pokCts = NoPokCts
  /\ pokProof = NoPokProof
  /\ pokCall = NoPokCall

NoCodecCall == [op |-> "none"]

CodecInit == codecCall = NoCodecCall

NoXfrMsig == [set |-> FALSE, msg |-> "", signatures |-> <<>>]

NoXfrCall == [op |-> "none", keylist |-> <<>>, message |-> "",
              signatures |-> <<>>, res |-> Ok(0)]

XfrInit ==
  /\ xfrKeys = <<>>
  /\ xfrMsig = NoXfrMsig
  /\ xfrCall = NoXfrCall

NoArNote == [set |-> FALSE]

NoArCall == [op |-> "none"]

ArInit ==
  /\ arNote = NoArNote
  /\ arCall = NoArCall

NoTx == [set |-> FALSE]

NoTxCall == [op |-> "none"]

TxInit ==
  /\ txTx = NoTx
  /\ txCall = NoTxCall

Init == EgInit /\ BlsInit /\ PokInit /\ CodecInit /\ XfrInit /\ ArInit /\ TxInit

\* A session generates one key pair, holds one ciphertext and makes one call
\* on it; every combination of key, ciphertext and call is reached this way.

\* elgamal_key_gen over a base, the secret key drawn by the prng
EgKeyGen ==
  /\ ~egKey.set
  /\ \E base \in Generators, s \in ScalarSet :
       LET kp == elgamal_key_gen(base, s) IN
       egKey' = [set |-> TRUE, base |-> base, sk |-> kp.sk, pk |-> kp.pk]
  /\ egCt' = NoCt
  /\ egCall' = NoCall
  /\ EgFrame

\* elgamal_encrypt of plaintext m with randomness r under the public key
EgEncrypt ==
  /\ egKey.set
  /\ ~egCt.set
  /\ \E m \in ScalarSet, r \in ScalarSet :
       LET c == elgamal_encrypt(egKey.base, m, r, egKey.pk) IN
       egCt' = [set |-> TRUE, honest |-> TRUE, m |-> m, r |-> r,
                e1 |-> c.e1, e2 |-> c.e2]
  /\ egCall' = NoCall
  /\ UNCHANGED egKey
  /\ EgFrame

\* a ciphertext that was not produced by elgamal_encrypt under this key
EgReceive ==
  /\ egKey.set
  /\ ~egCt.set
  /\ \E e1 \in GroupSet, e2 \in GroupSet :
       egCt' = [set |-> TRUE, honest |-> FALSE, m |-> 0, r |-> 0,
                e1 |-> e1, e2 |-> e2]
  /\ egCall' = NoCall
  /\ UNCHANGED egKey
  /\ EgFrame

EgVerify ==
  /\ egCt.set
  /\ egCall.op = "none"
  /\ \E m \in ScalarSet :
       egCall' = [op |-> "verify", m |-> m, lower |-> 0, upper |-> 0,
                  res |-> elgamal_verify(egKey.base, m, egCt, egKey.sk)]
  /\ UNCHANGED <<egKey, egCt>>
  /\ EgFrame

EgDecryptElem ==
  /\ egCt.set
  /\ egCall.op = "none"
  /\ egCall' = [op |-> "decrypt_elem", m |-> 0, lower |-> 0, upper |-> 0,
                res |-> Ok(elgamal_decrypt_elem(egCt, egKey.sk))]
  /\ UNCHANGED <<egKey, egCt>>
  /\ EgFrame

EgDecryptHinted ==
  /\ egCt.set
  /\ egCall.op = "none"
  /\ \E lower \in U64, upper \in U64 :
       egCall' = [op |-> "decrypt_hinted", m |-> 0, lower |-> lower, upper |-> upper,
                  res |-> elgamal_decrypt_hinted(egKey.base, egCt, egKey.sk,
                                                 lower, upper)]
  /\ UNCHANGED <<egKey, egCt>>
  /\ EgFrame

EgNext ==
  \/ EgKeyGen
  \/ EgEncrypt
  \/ EgReceive
  \/ EgVerify
  \/ EgDecryptElem
  \/ EgDecryptHinted

SpecElGamal == Init /\ [][EgNext]_vars

\* elgamal_decrypt and elgamal_decrypt_as_scalar on the ciphertext
EgDecrypt ==
  /\ egCt.set
  /\ egCall.op = "none"
  /\ egCall' = [op |-> "decrypt", m |-> 0, lower |-> 0, upper |-> 0,
                res |-> elgamal_decrypt(egKey.base, egCt, egKey.sk)]
  /\ UNCHANGED <<egKey, egCt>>
  /\ EgFrame

EgDecryptAsScalar ==
  /\ egCt.set
  /\ egCall.op = "none"
  /\ egCall' = [op |-> "decrypt_as_scalar", m |-> 0, lower |-> 0, upper |-> 0,
                res |-> elgamal_decrypt_as_scalar(egKey.base, egCt, egKey.sk)]
  /\ UNCHANGED <<egKey, egCt>>
  /\ EgFrame

EgDecryptNext ==
  \/ EgKeyGen
  \/ EgEncrypt
  \/ EgReceive
  \/ EgDecrypt
  \/ EgDecryptAsScalar

SpecEgDecrypt == Init /\ [][EgDecryptNext]_vars

\* C1: a ciphertext made by elgamal_encrypt(base, m, r, pk) under a generated
\* key pair passes elgamal_verify for m, and elgamal_decrypt_elem returns base*m.
C1_EncryptVerifyDecrypt ==
  /\ (egCall.op = "verify" /\ egCt.honest /\ egCall.m = egCt.m)
        => egCall.res = Ok(0)
  /\ (egCall.op = "decrypt_elem" /\ egCt.honest)
        => egCall.res = Ok(mul(egKey.base, egCt.m))

C1_Witness ==
  /\ egCall.op = "verify"
  /\ egCt.honest
  /\ egCall.m = egCt.m
  /\ egKey.sk # 0 /\ egCt.r # 0 /\ egCt.m # 0 /\ egKey.base # get_base
  /\ egCall.res.ok

\* C2: elgamal_verify(base, m', c, sk) is Ok exactly when
\* base*m' + c.e1*sk = c.e2, and is Err(ElGamalVerificationError) otherwise;
\* for an honest ciphertext of m every m' different from m is rejected.
C2_VerifyIff ==
  egCall.op = "verify" =>
    /\ egCall.res.ok <=>
          (add(mul(egKey.base, egCall.m), mul(egCt.e1, egKey.sk)) = egCt.e2)
    /\ egCall.res \in {Ok(0), Err(ElGamalVerificationError)}
    /\ (egCt.honest /\ egCall.m # egCt.m)
          => egCall.res = Err(ElGamalVerificationError)

C2_Witness ==
  /\ egCall.op = "verify"
  /\ egCt.honest
  /\ egCall.m # egCt.m
  /\ egKey.sk # 0 /\ egCt.r # 0
  /\ egCall.res = Err(ElGamalVerificationError)

\* the plaintext of the held ciphertext lies in [lower, upper)
EgInRange == egCall.lower <= egCt.m /\ egCt.m < egCall.upper

BlsPks == [i \in 1 .. Len(blsKeys) |-> blsKeys[i].pk]

BlsSigSeq == [i \in 1 .. Len(blsSigs) |-> blsSigs[i].sig]

BlsMsgSeq == [i \in 1 .. Len(blsSigs) |-> blsSigs[i].msg]

Range(xs) == {xs[i] : i \in 1 .. Len(xs)}

\* the signed messages, and the lists that differ from them at one position
MsgVariants ==
  {BlsMsgSeq} \cup
  { [BlsMsgSeq EXCEPT ![j] = m] : j \in 1 .. Len(blsSigs), m \in Msgs }

\* the message all signers of a common-message session sign
CommonMsg == "this is a message"

\* the message the i-th signer of a batch signs: neighbours sign different
\* messages, and "this message has not been signed" is signed by nobody
BatchMsg(i) ==
  IF i % 2 = 1 THEN "this is a message" ELSE "this is another message"

\* bls_gen_keys, at most limit signers
BlsGenKeys(limit) ==
  /\ Len(blsKeys) < limit
  /\ blsSigs = <<>>
  /\ blsAgg.op = "none"
  /\ blsCall.op = "none"
  /\ \E sec_key \in ScalarSet :
       blsKeys' = Append(blsKeys, bls_gen_keys(sec_key))
  /\ UNCHANGED <<hashG2, hashFr, blsSigs, blsAgg, blsCall, blsPrev>>
  /\ BlsFrame

\* bls_sign by the next signer on a message of allowed
BlsSign(allowed) ==
  /\ Len(blsSigs) < Len(blsKeys)
  /\ blsAgg.op = "none"
  /\ blsCall.op = "none"
  /\ \E message \in allowed :
       \E H \in HashFnc(hashG2, {message}) :
         /\ hashG2' = H
         /\ blsSigs' = Append(blsSigs,
              [msg |-> message,
               sig |-> bls_sign(H, blsKeys[Len(blsSigs) + 1].sk, message)])
  /\ UNCHANGED <<hashFr, blsKeys, blsAgg, blsCall, blsPrev>>
  /\ BlsFrame

\* bls_verify on any key, message and signature
BlsVerify ==
  /\ Len(blsSigs) = Len(blsKeys)
  /\ blsCall.op = "none"
  /\ \E ver_key \in GroupSet, message \in Msgs, signature \in GroupSet :
       \E H \in HashFnc(hashG2, {message}) :
         /\ hashG2' = H
         /\ blsCall' = [op |-> "verify", pks |-> <<ver_key>>,
                        msgs |-> <<message>>, sigs |-> <<signature>>,
                        res |-> bls_verify(H, ver_key, message, signature)]
  /\ UNCHANGED <<hashFr, blsKeys, blsSigs, blsAgg, blsPrev>>
  /\ BlsFrame

\* bls_aggregate of the session's keys with its signatures, in signer order
BlsAggregate ==
  /\ Len(blsSigs) = Len(blsKeys)
  /\ blsAgg.op = "none"
  /\ blsCall.op = "none"
  /\ \E HS \in HashFncScalars(hashFr, BlsPks) :
       /\ hashFr' = HS
       /\ blsAgg' = [op |-> "aggregate", pks |-> BlsPks, sigs |-> BlsSigSeq,
                     out |-> bls_aggregate(HS, BlsPks, BlsSigSeq)]
  /\ UNCHANGED <<hashG2, blsKeys, blsSigs, blsCall, blsPrev>>
  /\ BlsFrame

\* bls_verify_aggregated of the aggregate under the session's keys, for the
\* signed message (for any message when nobody signed)
BlsVerifyAggregated ==
  /\ blsAgg.op = "aggregate"
  /\ blsAgg.out.ok
  /\ blsCall.op = "none"
  /\ \E message \in (IF blsSigs = <<>> THEN Msgs ELSE {CommonMsg}) :
       \E H \in HashFnc(hashG2, {message}) :
         \E HS \in HashFncScalars(hashFr, BlsPks) :
           /\ hashG2' = H
           /\ hashFr' = HS
           /\ blsCall' = [op |-> "verify_aggregated", pks |-> BlsPks,
                          msgs |-> <<message>>, sigs |-> <<blsAgg.out.val>>,
                          res |-> bls_verify_aggregated(H, HS, BlsPks, message,
                                                        blsAgg.out.val)]
  /\ UNCHANGED <<blsKeys, blsSigs, blsAgg, blsPrev>>
  /\ BlsFrame

\* bls_add_signatures of the session's signatures
BlsAddSignatures ==
  /\ Len(blsSigs) = Len(blsKeys)
  /\ blsAgg.op = "none"
  /\ blsCall.op = "none"
  /\ blsAgg' = [op |-> "add_signatures", pks |-> <<>>, sigs |-> BlsSigSeq,
                out |-> Ok(bls_add_signatures(BlsSigSeq))]
  /\ UNCHANGED <<hashG2, hashFr, blsKeys, blsSigs, blsCall, blsPrev>>
  /\ BlsFrame

\* bls_batch_verify_added_signatures of the added signature
BlsBatchVerifyAdded ==
  /\ blsAgg.op = "add_signatures"
  /\ blsCall.op = "none"
  /\ \E messages \in MsgVariants :
       \E H \in HashFnc(hashG2, Range(messages)) :
         /\ hashG2' = H
         /\ blsCall' = [op |-> "batch_verify_added", pks |-> BlsPks,
                        msgs |-> messages, sigs |-> <<blsAgg.out.val>>,
                        res |-> bls_batch_verify_added_signatures(
                                  H, BlsPks, messages, blsAgg.out.val)]
  /\ UNCHANGED <<hashFr, blsKeys, blsSigs, blsAgg, blsPrev>>
  /\ BlsFrame

\* bls_batch_verify of the session's signatures; after a call of
\* bls_batch_verify_added_signatures, on the messages of that call
BlsBatchVerify ==
  /\ Len(blsSigs) = Len(blsKeys)
  /\ blsCall.op \in {"none", "batch_verify_added"}
  /\ \E messages \in (IF blsCall.op = "none" THEN MsgVariants ELSE {blsCall.msgs}) :
       \E H \in HashFnc(hashG2, Range(messages)) :
         /\ hashG2' = H
         /\ blsCall' = [op |-> "batch_verify", pks |-> BlsPks,
                        msgs |-> messages, sigs |-> BlsSigSeq,
                        res |-> bls_batch_verify(H, BlsPks, messages, BlsSigSeq)]
  /\ blsPrev' = blsCall
  /\ UNCHANGED <<hashFr, blsKeys, blsSigs, blsAgg>>
  /\ BlsFrame

\* one signer: sign and verify
BlsNext ==
  \/ BlsGenKeys(1)
  \/ BlsSign(Msgs)
  \/ BlsVerify

SpecBls == Init /\ [][BlsNext]_vars

\* several signers of one common message: aggregate and verify
BlsAggNext ==
  \/ BlsGenKeys(MaxKeys)
  \/ BlsSign({CommonMsg})
  \/ BlsAggregate
  \/ BlsVerifyAggregated

SpecBlsAgg == Init /\ [][BlsAggNext]_vars

\* several signers of possibly different messages: batch verification
BlsBatchNext ==
  \/ BlsGenKeys(MaxKeys)
  \/ BlsSign({BatchMsg(Len(blsSigs) + 1)})
  \/ BlsAddSignatures
  \/ BlsBatchVerifyAdded
  \/ BlsBatchVerify

SpecBlsBatch == Init /\ [][BlsBatchNext]_vars

\* no signer or one signer: every aggregate function on the lists
BlsFewNext ==
  \/ BlsGenKeys(1)
  \/ BlsSign({CommonMsg})
  \/ BlsAggregate
  \/ BlsVerifyAggregated
  \/ BlsAddSignatures
  \/ BlsBatchVerifyAdded
  \/ BlsBatchVerify

SpecBlsFew == Init /\ [][BlsFewNext]_vars

\* ----------------------------------------- BLS: lists of different lengths
\* the first k entries of a list
Prefix(xs, k) == SubSeq(xs, 1, k)

\* bls_aggregate on a prefix of the keys and a prefix of the signatures of
\* another length
BlsLenAggregate ==
  /\ Len(blsSigs) = Len(blsKeys)
  /\ blsAgg.op = "none"
  /\ blsCall.op = "none"
  /\ \E kp \in 0 .. Len(blsKeys), ks \in 0 .. Len(blsKeys) :
       /\ kp # ks
       /\ blsCall' = [op |-> "len_aggregate", pks |-> Prefix(BlsPks, kp),
                      msgs |-> <<>>, sigs |-> Prefix(BlsSigSeq, ks),
                      res |-> bls_aggregate(hashFr, Prefix(BlsPks, kp),
                                            Prefix(BlsSigSeq, ks))]
  /\ UNCHANGED <<hashG2, hashFr, blsKeys, blsSigs, blsAgg, blsPrev>>
  /\ BlsFrame

\* bls_batch_verify on prefixes that do not all have the same length
BlsLenBatchVerify ==
  /\ Len(blsSigs) = Len(blsKeys)
  /\ blsAgg.op = "none"
  /\ blsCall.op = "none"
  /\ \E kp \in 0 .. Len(blsKeys), km \in 0 .. Len(blsKeys),
        ks \in 0 .. Len(blsKeys) :
       /\ ~(kp = km /\ kp = ks)
       /\ blsCall' = [op |-> "len_batch_verify", pks |-> Prefix(BlsPks, kp),
                      msgs |-> Prefix(BlsMsgSeq, km),
                      sigs |-> Prefix(BlsSigSeq, ks),
                      res |-> bls_batch_verify(hashG2, Prefix(BlsPks, kp),
                                               Prefix(BlsMsgSeq, km),
                                               Prefix(BlsSigSeq, ks))]
  /\ UNCHANGED <<hashG2, hashFr, blsKeys, blsSigs, blsAgg, blsPrev>>
  /\ BlsFrame

\* bls_batch_verify_added_signatures on a prefix of the keys and a prefix of
\* the messages of another length, with the sum of some of the signatures
BlsLenBatchVerifyAdded ==
  /\ Len(blsSigs) = Len(blsKeys)
  /\ blsAgg.op = "none"
  /\ blsCall.op = "none"
  /\ \E kp \in 0 .. Len(blsKeys), km \in 0 .. Len(blsKeys),
        ks \in 0 .. Len(blsKeys) :
       /\ kp # km
       /\ \E H \in HashFnc(hashG2, Range(Prefix(BlsMsgSeq, Min(kp, km)))) :
            /\ hashG2' = H
            /\ blsCall' = [op |-> "len_batch_verify_added",
                           pks |-> Prefix(BlsPks, kp),
                           msgs |-> Prefix(BlsMsgSeq, km),
                           sigs |-> Prefix(BlsSigSeq, ks),
                           res |-> bls_batch_verify_added_signatures(
                                     H, Prefix(BlsPks, kp), Prefix(BlsMsgSeq, km),
                                     bls_add_signatures(Prefix(BlsSigSeq, ks)))]
  /\ UNCHANGED <<hashFr, blsKeys, blsSigs, blsAgg, blsPrev>>
  /\ BlsFrame

BlsLenNext ==
  \/ BlsGenKeys(MaxKeys)
  \/ BlsSign({BatchMsg(Len(blsSigs) + 1)})
  \/ BlsLenAggregate
  \/ BlsLenBatchVerify
  \/ BlsLenBatchVerifyAdded

SpecBlsLen == Init /\ [][BlsLenNext]_vars

\* ------------------------------------------------------------- BLS claims
\* the call is on the session's own key, signed message and signature
BlsHonestCall ==
  /\ Len(blsKeys) = 1
  /\ Len(blsSigs) = 1
  /\ blsCall.pks = BlsPks
  /\ blsCall.msgs = BlsMsgSeq
  /\ blsCall.sigs = BlsSigSeq

\* C4: bls_verify(pk, msg, bls_sign(sk, msg)) is Ok for every generated key
\* pair and every message.
C4_SignVerify ==
  (blsCall.op = "verify" /\ BlsHonestCall) => blsCall.res = Ok(0)

C4_Witness ==
  /\ blsCall.op = "verify"
  /\ BlsHonestCall
  /\ blsKeys[1].sk # 0
  /\ blsSigs[1].sig # get_identity
  /\ blsCall.res = Ok(0)

\* bls_verify is Ok exactly when the two pairings agree, else SignatureError
BlsVerifyIff ==
  blsCall.op = "verify" =>
    /\ blsCall.res.ok <=>
         (pairing(get_base, blsCall.sigs[1])
            = pairing(blsCall.pks[1], bls_hash_message(hashG2, blsCall.msgs[1])))
    /\ blsCall.res \in {Ok(0), Err(SignatureError)}

\* the session's signature checked under the session's key against another
\* message, one that hashes to another element of G2
BlsOtherMessage ==
  /\ blsCall.op = "verify"
  /\ Len(blsKeys) = 1
  /\ Len(blsSigs) = 1
  /\ blsCall.pks = BlsPks
  /\ blsCall.sigs = BlsSigSeq
  /\ bls_hash_message(hashG2, blsCall.msgs[1])
       # bls_hash_message(hashG2, blsSigs[1].msg)

\* another signature checked under the session's key against the signed message
BlsOtherSignature ==
  /\ blsCall.op = "verify"
  /\ Len(blsKeys) = 1
  /\ Len(blsSigs) = 1
  /\ blsCall.pks = BlsPks
  /\ blsCall.msgs = BlsMsgSeq
  /\ blsCall.sigs # BlsSigSeq

\* C5 as claimed: bls_verify is Ok iff the pairings agree, else SignatureError;
\* a signature of msg is rejected for every message hashing to another element
\* of G2, and every other signature is rejected for msg.
C5_Original ==
  /\ BlsVerifyIff
  /\ BlsOtherMessage => blsCall.res = Err(SignatureError)
  /\ BlsOtherSignature => blsCall.res = Err(SignatureError)

\* C5 amended: the rejection of another message holds for a non-zero secret
\* key (the zero key signs every message with the identity of G2).
C5_VerifyIff ==
  /\ BlsVerifyIff
  /\ (BlsOtherMessage /\ blsKeys[1].sk # 0) => blsCall.res = Err(SignatureError)
  /\ BlsOtherSignature => blsCall.res = Err(SignatureError)

C5_Witness ==
  /\ BlsOtherMessage
  /\ blsKeys[1].sk # 0
  /\ blsCall.res = Err(SignatureError)

\* the aggregate of the session's signatures, keys and signatures in the same
\* order, verified for the common message
BlsHonestAggregate ==
  /\ blsCall.op = "verify_aggregated"
  /\ Len(blsKeys) >= 1
  /\ blsAgg.pks = BlsPks
  /\ blsAgg.sigs = BlsSigSeq
  /\ blsCall.pks = BlsPks
  /\ blsCall.msgs = <<blsSigs[1].msg>>
  /\ blsCall.sigs = <<blsAgg.out.val>>

\* C6: for N >= 1 generated key pairs signing one message,
\* bls_verify_aggregated(pks, msg, bls_aggregate(pks, sigs)) is Ok.
C6_AggregateVerify ==
  BlsHonestAggregate => blsCall.res = Ok(0)

C6_Witness ==
  /\ BlsHonestAggregate
  /\ Len(blsKeys) = MaxKeys
  /\ \A i \in 1 .. Len(blsKeys) : blsKeys[i].sk # 0
  /\ \A i, j \in 1 .. Len(blsKeys) : i # j => blsKeys[i].sk # blsKeys[j].sk
  /\ \A i \in 1 .. Len(blsKeys) : hashFr[BlsPks][i] > 1
  /\ blsSigs[1].sig # get_identity
  /\ blsCall.res = Ok(0)

\* the batch call is on the session's keys and signatures
BlsBatchCall ==
  /\ blsCall.op = "batch_verify"
  /\ Len(blsKeys) >= 1
  /\ blsCall.pks = BlsPks
  /\ blsCall.sigs = BlsSigSeq

\* C8: bls_batch_verify of N honest (key, message, signature) triples is Ok,
\* and it returns what bls_batch_verify_added_signatures returns on the same
\* keys and messages with bls_add_signatures of the signatures.
C8_BatchVerify ==
  /\ (BlsBatchCall /\ blsCall.msgs = BlsMsgSeq) => blsCall.res = Ok(0)
  /\ (/\ blsCall.op = "batch_verify"
      /\ blsPrev.op = "batch_verify_added"
      /\ blsPrev.pks = blsCall.pks
      /\ blsPrev.msgs = blsCall.msgs
      /\ blsAgg.op = "add_signatures"
      /\ blsAgg.sigs = blsCall.sigs
      /\ blsPrev.sigs = <<blsAgg.out.val>>)
       => blsCall.res = blsPrev.res

C8_Witness ==
  /\ BlsBatchCall
  /\ blsCall.msgs = BlsMsgSeq
  /\ Len(blsKeys) = MaxKeys
  /\ blsPrev.op = "batch_verify_added"
  /\ \A i \in 1 .. Len(blsKeys) : blsKeys[i].sk # 0
  /\ \A i, j \in 1 .. Len(blsSigs) :
       i # j => bls_hash_message(hashG2, blsSigs[i].msg)
                  # bls_hash_message(hashG2, blsSigs[j].msg)
  /\ blsCall.res = Ok(0)
  /\ blsPrev.res = Ok(0)

\* the messages of the batch call differ from the signed ones at position j only
BlsReplacedAt(j) ==
  /\ BlsBatchCall
  /\ blsCall.msgs[j] # blsSigs[j].msg
  /\ \A i \in 1 .. Len(blsSigs) : i # j => blsCall.msgs[i] = blsSigs[i].msg

\* C9 as claimed, read with a replacement that hashes to another element of
\* G2: replacing one message by one its key did not sign makes
\* bls_batch_verify return SignatureError.
C9_Original ==
  \A j \in 1 .. Len(blsSigs) :
    (/\ BlsReplacedAt(j)
     /\ bls_hash_message(hashG2, blsCall.msgs[j])
          # bls_hash_message(hashG2, blsSigs[j].msg))
      => blsCall.res = Err(SignatureError)

\* C9 amended: the replacement is rejected when the signature passed for that
\* position is not the key's signature of the new message.
C9_BatchReject ==
  \A j \in 1 .. Len(blsSigs) :
    (/\ BlsReplacedAt(j)
     /\ bls_sign(hashG2, blsKeys[j].sk, blsCall.msgs[j]) # blsSigs[j].sig)
      => blsCall.res = Err(SignatureError)

C9_Witness ==
  /\ Len(blsSigs) = MaxKeys
  /\ BlsReplacedAt(Len(blsSigs))
  /\ bls_sign(hashG2, blsKeys[Len(blsSigs)].sk, blsCall.msgs[Len(blsSigs)])
       # blsSigs[Len(blsSigs)].sig
  /\ blsCall.res = Err(SignatureError)

\* ------------------------------------------------- joint proof: operations
\* A session follows one_confidential_reveal: one generator seeded once, the
\* issuer's, the asset issuer's and the user's keys, the attributes, the
\* credential and its reveal proof, the ciphertexts of the revealed
\* attributes, the joint proof and its verification.

\* seed the generator; gen_issuer_keys, the ElGamal key of the asset issuer,
\* gen_user_keys and the attributes
PokSetupOf(seeds, counts) ==
  /\ ~pokKeys.set
  /\ \E seed \in seeds, num_attrs \in counts :
       LET p0     == [seed |-> seed, pos |-> 0]
           issuer == gen_issuer_keys(p0, num_attrs)
           p1     == rng_after(p0, num_attrs + 4)
           asset  == elgamal_key_gen(get_base, random_scalar(p1, 1))
           p2     == rng_after(p1, 1)
           user   == gen_user_keys(p2, issuer.pk)
           p3     == rng_after(p2, 1)
       IN  /\ pokKeys' = [set |-> TRUE, issuer |-> issuer, asset |-> asset,
                          user |-> user,
                          attrs |-> [i \in 1 .. num_attrs |-> random_scalar(p3, i)]]
           /\ prng' = rng_after(p3, num_attrs)
  /\ UNCHANGED <<hashCred, hashPok, pokCred, pokCts, pokProof, pokCall>>
  /\ PokFrame

\* every seed, every number of attributes
PokSetup == PokSetupOf(Seeds, 0 .. MaxAttrs)

\* issuer_sign on the attributes, then reveal_attrs for a bitmap
PokReveal ==
  /\ pokKeys.set
  /\ ~pokCred.set
  /\ \E bitmap \in [1 .. Len(pokKeys.attrs) -> BOOLEAN] :
       LET sig == issuer_sign(prng, pokKeys.issuer.sk, pokKeys.user.pk,
                              pokKeys.attrs)
           p1  == rng_after(prng, 1)
           com == reveal_commitment(p1, pokKeys.issuer.pk, bitmap)
       IN  \E HC \in HashToScalar(hashCred, <<com>>) :
             /\ hashCred' = HC
             /\ pokCred' = [set |-> TRUE, bitmap |-> bitmap,
                            proof |-> reveal_attrs(p1, HC, pokKeys.user.sk,
                                                   pokKeys.issuer.pk, sig,
                                                   pokKeys.attrs, bitmap)]
             /\ prng' = rng_after(p1, 4 + Len(select(pokKeys.attrs, bitmap, FALSE)))
  /\ UNCHANGED <<hashPok, pokKeys, pokCts, pokProof, pokCall>>
  /\ PokFrame

\* elgamal_encrypt of every bitmap-true attribute, in position order, each
\* with fresh randomness
PokEncrypt ==
  /\ pokCred.set
  /\ ~pokCts.set
  /\ LET shown == select(pokKeys.attrs, pokCred.bitmap, TRUE)
         rand  == [j \in 1 .. Len(shown) |-> random_scalar(prng, j)]
     IN  /\ pokCts' = [set |-> TRUE, attrs |-> shown, rand |-> rand,
                       ctexts |-> [j \in 1 .. Len(shown) |->
                                     elgamal_encrypt(get_base, shown[j], rand[j],
                                                     pokKeys.asset.pk)]]
         /\ prng' = rng_after(prng, Len(shown))
  /\ UNCHANGED <<hashCred, hashPok, pokKeys, pokCred, pokProof, pokCall>>
  /\ PokFrame

\* pok_attrs_prove on the encrypted attributes and their randomness
PokProve ==
  /\ pokCts.set
  /\ ~pokProof.set
  /\ LET com == pok_attrs_commit(prng, pokKeys.issuer.pk, pokKeys.asset.pk,
                                 pokCred.bitmap)
         key == challenge_input(com.attr_commitments, com.rand_commitments)
     IN  \E HP \in (IF Len(pokCts.attrs) = Len(com.rand_blind)
                    THEN HashToScalar(hashPok, key) ELSE {hashPok}) :
           /\ hashPok' = HP
           /\ pokProof' = [set |-> TRUE,
                           res |-> pok_attrs_prove(prng, HP, pokCts.attrs,
                                                   pokKeys.issuer.pk,
                                                   pokKeys.asset.pk, pokCts.rand,
                                                   pokCred.bitmap)]
  /\ prng' = pok_attrs_prove_rng(prng, pokKeys.issuer.pk, pokCred.bitmap)
  /\ UNCHANGED <<hashCred, pokKeys, pokCred, pokCts, pokCall>>
  /\ PokFrame

\* pok_attrs_verify of the proof against the reveal proof and the ciphertexts
PokVerify ==
  /\ pokProof.set
  /\ pokProof.res.ok
  /\ pokCall.op = "none"
  /\ LET pok_attrs == pokProof.res.val
         key == challenge_input(pok_attrs.attr_commitments,
                                pok_attrs.rand_commitments)
     IN  \E HP \in HashToScalar(hashPok, key) :
           \E HC \in HashToScalar(hashCred, <<pokCred.proof.pok.commitment>>) :
             /\ hashPok' = HP
             /\ hashCred' = HC
             /\ pokCall' = [op |-> "pok_attrs_verify",
                            res |-> pok_attrs_verify(HP, HC, pokCred.proof,
                                                     pokCts.ctexts, pok_attrs,
                                                     pokKeys.issuer.pk,
                                                     pokKeys.asset.pk,
                                                     pokCred.bitmap)]
  /\ UNCHANGED <<prng, pokKeys, pokCred, pokCts, pokProof>>
  /\ PokFrame

PokNext ==
  \/ PokSetup
  \/ PokReveal
  \/ PokEncrypt
  \/ PokProve
  \/ PokVerify

SpecPok == Init /\ [][PokNext]_vars

\* ------------------------------------------- joint proof: altered inputs
\* the fields of a PoKAttrs proof that hold one element per shown position,
\* and the field that holds a single element
PokSeqFields == {"attr_responses", "rand_responses", "attr_commitments",
                 "rand_commitments_0", "rand_commitments_1"}

PokFields == PokSeqFields \cup {"attr_blind_cred_commitment"}

\* the element of field f at position j of the proof
pok_field(pok_attrs, f, j) ==
  CASE f = "attr_responses"     -> pok_attrs.attr_responses[j]
    [] f = "rand_responses"     -> pok_attrs.rand_responses[j]
    [] f = "attr_commitments"   -> pok_attrs.attr_commitments[j]
    [] f = "rand_commitments_0" -> pok_attrs.rand_commitments[j][1]
    [] f = "rand_commitments_1" -> pok_attrs.rand_commitments[j][2]
    [] OTHER                    -> pok_attrs.attr_blind_cred_commitment

\* the proof with the element of field f at position j replaced by v
pok_with(pok_attrs, f, j, v) ==
  CASE f = "attr_responses" ->
         [pok_attrs EXCEPT !.attr_responses[j] = v]
    [] f = "rand_responses" ->
         [pok_attrs EXCEPT !.rand_responses[j] = v]
    [] f = "attr_commitments" ->
         [pok_attrs EXCEPT !.attr_commitments[j] = v]
    [] f = "rand_commitments_0" ->
         [pok_attrs EXCEPT !.rand_commitments[j] = <<v, @[2]>>]
    [] f = "rand_commitments_1" ->
         [pok_attrs EXCEPT !.rand_commitments[j] = <<@[1], v>>]
    [] OTHER ->
         [pok_attrs EXCEPT !.attr_blind_cred_commitment = v]

\* the seeds of the sessions with altered inputs: the streams a, a, a, ...
\* and a, a + 1, a + 2, ...
AdvSeeds == {s \in Seeds : s[2] <= 1 /\ s[3] = 0}

\* pok_attrs_verify of the session's proof with one field element changed,
\* every other argument as in PokVerify
PokVerifyTampered ==
  /\ pokProof.set
  /\ pokProof.res.ok
  /\ pokCall.op = "none"
  /\ \E f \in PokFields :
       \E j \in (IF f \in PokSeqFields
                 THEN 1 .. Len(pokProof.res.val.attr_responses) ELSE {1}) :
         \E v \in GroupSet \ {pok_field(pokProof.res.val, f, j)} :
           LET pok_attrs == pok_with(pokProof.res.val, f, j, v)
               key == challenge_input(pok_attrs.attr_commitments,
                                      pok_attrs.rand_commitments)
           IN  \E HP \in HashToScalar(hashPok, key) :
                 /\ hashPok' = HP
                 /\ pokCall' = [op |-> "verify_tampered", field |-> f, pos |-> j,
                                proof |-> pok_attrs,
                                res |-> pok_attrs_verify(
                                          HP, hashCred, pokCred.proof,
                                          pokCts.ctexts, pok_attrs,
                                          pokKeys.issuer.pk, pokKeys.asset.pk,
                                          pokCred.bitmap)]
  /\ UNCHANGED <<prng, hashCred, pokKeys, pokCred, pokCts, pokProof>>
  /\ PokFrame

\* the bitmaps of at most MaxAttrs positions
Bitmaps == UNION { [1 .. k -> BOOLEAN] : k \in 0 .. MaxAttrs }

\* pok_attrs_verify of the session's proofs with another bitmap than the one
\* they were made for, every other argument as in PokVerify
PokVerifyBitmap ==
  /\ pokProof.set
  /\ pokProof.res.ok
  /\ pokCall.op = "none"
  /\ \E bitmap \in Bitmaps \ {pokCred.bitmap} :
       pokCall' = [op |-> "verify_bitmap", bitmap |-> bitmap,
                   res |-> pok_attrs_verify(hashPok, hashCred, pokCred.proof,
                                            pokCts.ctexts, pokProof.res.val,
                                            pokKeys.issuer.pk, pokKeys.asset.pk,
                                            bitmap)]
  /\ UNCHANGED <<prng, hashCred, hashPok, pokKeys, pokCred, pokCts, pokProof>>
  /\ PokFrame

\* sessions with altered inputs to pok_attrs_verify
PokAdvNext ==
  \/ PokSetupOf(AdvSeeds, {MaxAttrs})
  \/ PokReveal
  \/ PokEncrypt
  \/ PokProve
  \/ PokVerifyTampered
  \/ PokVerifyBitmap

SpecPokAdv == Init /\ [][PokAdvNext]_vars

\* ------------------------------------- joint proof: lists of other lengths
\* the lists verify_ciphertext zips: the ciphertexts and the four sequences
\* of the proof
PokZipped == {"ctexts", "rand_commitments", "attr_commitments",
              "rand_responses", "attr_responses"}

\* the proof with the sequence f cut to its first k elements
pok_truncated(pok_attrs, f, k) ==
  CASE f = "rand_commitments" ->
         [pok_attrs EXCEPT !.rand_commitments = SubSeq(@, 1, k)]
    [] f = "attr_commitments" ->
         [pok_attrs EXCEPT !.attr_commitments = SubSeq(@, 1, k)]
    [] f = "rand_responses" ->
         [pok_attrs EXCEPT !.rand_responses = SubSeq(@, 1, k)]
    [] f = "attr_responses" ->
         [pok_attrs EXCEPT !.attr_responses = SubSeq(@, 1, k)]
    [] OTHER -> pok_attrs

\* pok_attrs_verify of the session's proof with one of the zipped lists cut to
\* a prefix and the second component of one ciphertext set to any element,
\* every other argument as in PokVerify
PokVerifyLengths ==
  /\ pokProof.set
  /\ pokProof.res.ok
  /\ pokCall.op = "none"
  /\ \E f \in PokZipped, k \in 0 .. Len(pokCts.ctexts) :
       \E j \in 1 .. Len(pokCts.ctexts), v \in GroupSet :
         \E pok_attrs \in {pok_truncated(pokProof.res.val, f, k)} :
           \E ctexts \in {IF f = "ctexts"
                          THEN SubSeq([pokCts.ctexts EXCEPT ![j].e2 = v], 1, k)
                          ELSE [pokCts.ctexts EXCEPT ![j].e2 = v]} :
             \E HP \in HashToScalar(hashPok,
                                    challenge_input(pok_attrs.attr_commitments,
                                                    pok_attrs.rand_commitments)) :
               /\ hashPok' = HP
               /\ pokCall' = [op |-> "verify_lengths", field |-> f, len |-> k,
                              ctexts |-> ctexts, proof |-> pok_attrs,
                              res |-> pok_attrs_verify(
                                        HP, hashCred, pokCred.proof, ctexts,
                                        pok_attrs, pokKeys.issuer.pk,
                                        pokKeys.asset.pk, pokCred.bitmap)]
  /\ UNCHANGED <<prng, hashCred, pokKeys, pokCred, pokCts, pokProof>>
  /\ PokFrame

\* sessions in which pok_attrs_verify is given lists of other lengths
PokLenNext ==
  \/ PokSetupOf(AdvSeeds, {MaxAttrs})
  \/ PokReveal
  \/ PokEncrypt
  \/ PokProve
  \/ PokVerifyLengths

SpecPokLen == Init /\ [][PokLenNext]_vars

\* ------------------------------------------ joint proof: prove called directly
\* pok_attrs_prove called on the issuer key of the session with a bitmap, an
\* attribute list and a randomness list of any lengths; as in the tests the
\* caller draws the attributes and the randomness from the generator before
\* the call
PokProveDirect ==
  /\ pokKeys.set
  /\ ~pokCred.set
  /\ pokCall.op = "none"
  /\ \E bitmap \in Bitmaps, la \in 0 .. MaxAttrs, lr \in 0 .. MaxAttrs :
       LET attrs       == [i \in 1 .. la |-> random_scalar(prng, i)]
           ctexts_rand == [i \in 1 .. lr |-> random_scalar(prng, la + i)]
           p1  == rng_after(prng, la + lr)
           com == pok_attrs_commit(p1, pokKeys.issuer.pk, pokKeys.asset.pk, bitmap)
           key == challenge_input(com.attr_commitments, com.rand_commitments)
       IN  \E HP \in (IF Len(attrs) = Len(com.rand_blind)
                      THEN HashToScalar(hashPok, key) ELSE {hashPok}) :
             /\ hashPok' = HP
             /\ pokCall' = [op |-> "pok_attrs_prove", prng |-> p1,
                            attrs |-> attrs, ctexts_rand |-> ctexts_rand,
                            bitmap |-> bitmap,
                            res |-> pok_attrs_prove(p1, HP, attrs,
                                                    pokKeys.issuer.pk,
                                                    pokKeys.asset.pk,
                                                    ctexts_rand, bitmap)]
             /\ prng' = pok_attrs_prove_rng(p1, pokKeys.issuer.pk, bitmap)
  /\ UNCHANGED <<hashCred, pokKeys, pokCred, pokCts, pokProof>>
  /\ PokFrame

PokProveNext ==
  \/ PokSetupOf(AdvSeeds, 0 .. MaxAttrs)
  \/ PokProveDirect

SpecPokProve == Init /\ [][PokProveNext]_vars

\* ------------------------------------------------- encodings: operations
CodecGroups == {"G1", "G2"}

COMPRESSED_LEN(group) ==
  CASE group = "G1" -> G1_COMPRESSED_LEN
    [] group = "G2" -> G2_COMPRESSED_LEN
    [] group = "Gt" -> Gt_COMPRESSED_LEN

\* a coefficient of a sampled element of Fq12
fq_at(seed, k) ==
  (rng_at(seed, k) * 4099 + rng_at(seed, k + 12) * 17 + k) % FqModulus

\* "Fq12::rand(&mut prng)": the twelve coefficients come from the stream
fq12_rand(seed) ==
  LET fq2(k) == [c0 |-> fq_at(seed, k), c1 |-> fq_at(seed, k + 1)]
      fq6(k) == [c0 |-> fq2(k), c1 |-> fq2(k + 2), c2 |-> fq2(k + 4)]
  IN  [c0 |-> fq6(1), c1 |-> fq6(7)]

\* a scalar is encoded, decoded, serialized and deserialized
CodecScalar ==
  /\ ~egKey.set
  /\ codecCall.op = "none"
  /\ \E x \in ScalarSet, human_readable \in BOOLEAN :
       \E bytes \in {to_bytes(x)} :
       \E ser \in {serialize(bytes, human_readable)} :
           codecCall' = [op |-> "scalar", x |-> x,
                         human_readable |-> human_readable,
                         bytes |-> bytes, decoded |-> from_bytes(bytes),
                         serialized |-> ser,
                         deserialized |-> deserialize(ser, human_readable, "Fr")]
  /\ CodecFrame

\* the same for an element of G1 or G2
CodecPoint ==
  /\ ~egKey.set
  /\ codecCall.op = "none"
  /\ \E x \in GroupSet, group \in CodecGroups, human_readable \in BOOLEAN :
       \E len \in {COMPRESSED_LEN(group)} :
       \E bytes \in {point_to_compressed_bytes(x, len)} :
       \E ser \in {serialize(bytes, human_readable)} :
           codecCall' = [op |-> "point", group |-> group, x |-> x,
                         human_readable |-> human_readable,
                         bytes |-> bytes,
                         decoded |-> point_from_compressed_bytes(bytes, len),
                         serialized |-> ser,
                         deserialized |->
                           deserialize(ser, human_readable, group)]
  /\ CodecFrame

\* the same for an element of Gt
CodecGt ==
  /\ ~egKey.set
  /\ codecCall.op = "none"
  /\ \E seed \in AdvSeeds, human_readable \in BOOLEAN :
       \E x \in {fq12_rand(seed)} :
       \E bytes \in {gt_to_compressed_bytes(x)} :
       \E ser \in {serialize(bytes, human_readable)} :
           codecCall' = [op |-> "gt", group |-> "Gt", x |-> x,
                         human_readable |-> human_readable,
                         bytes |-> bytes,
                         decoded |-> gt_from_compressed_bytes(bytes),
                         serialized |-> ser,
                         deserialized |-> deserialize(ser, human_readable, "Gt")]
  /\ CodecFrame

\* the derived serializers of ElGamalDecKey and ElGamalEncKey: the one field
\* is serialized
CodecKey ==
  /\ egKey.set
  /\ codecCall.op = "none"
  /\ \E group \in CodecGroups, human_readable \in BOOLEAN :
       \E len \in {COMPRESSED_LEN(group)} :
       \E sk_ser \in {serialize(to_bytes(egKey.sk), human_readable)} :
       \E pk_ser \in {serialize(point_to_compressed_bytes(egKey.pk, len),
                                 human_readable)} :
           codecCall' = [op |-> "key", group |-> group,
                         human_readable |-> human_readable,
                         sk_ser |-> sk_ser, pk_ser |-> pk_ser,
                         sk_de |-> deserialize(sk_ser, human_readable, "Fr"),
                         pk_de |-> deserialize(pk_ser, human_readable, group)]
  /\ CodecFrame

\* the derived serializer of ElGamalCiphertext: the fields e1 and e2 are
\* serialized one after the other
CodecCiphertext ==
  /\ egCt.set
  /\ codecCall.op = "none"
  /\ \E group \in CodecGroups, human_readable \in BOOLEAN :
       \E len \in {COMPRESSED_LEN(group)} :
       \E e1_ser \in {serialize(point_to_compressed_bytes(egCt.e1, len),
                                 human_readable)} :
       \E e2_ser \in {serialize(point_to_compressed_bytes(egCt.e2, len),
                                 human_readable)} :
           codecCall' = [op |-> "ciphertext", group |-> group,
                         human_readable |-> human_readable,
                         e1_ser |-> e1_ser, e2_ser |-> e2_ser,
                         e1_de |-> deserialize(e1_ser, human_readable, group),
                         e2_de |-> deserialize(e2_ser, human_readable, group)]
  /\ CodecFrame

\* byte strings near an encoding: a prefix of it, the encoding followed by
\* one more byte, and the encoding with one byte replaced
NearEncodings(bytes) ==
  {SubSeq(bytes, 1, k) : k \in 0 .. Len(bytes)}
    \cup {Append(bytes, b) : b \in {0, ByteBase - 1}}
    \cup {[bytes EXCEPT ![i] = b] : i \in 1 .. Len(bytes), b \in Bytes}

\* from_compressed_bytes and the compact deserializer on such a string
decode_call(group, bytes, decoded, deserialized) ==
  [op |-> "from_compressed_bytes", group |-> group, bytes |-> bytes,
   decoded |-> decoded, deserialized |-> deserialized]

CodecDecodePoint ==
  /\ ~egKey.set
  /\ codecCall.op = "none"
  /\ \E group \in CodecGroups, x \in GroupSet :
       \E len \in {COMPRESSED_LEN(group)} :
       \E encoding \in {point_to_compressed_bytes(x, len)} :
       \E bytes \in NearEncodings(encoding) :
             codecCall' =
               decode_call(group, bytes, point_from_compressed_bytes(bytes, len),
                           deserialize(serialize(bytes, FALSE), FALSE, group))
  /\ CodecFrame

CodecDecodeGt ==
  /\ ~egKey.set
  /\ codecCall.op = "none"
  /\ \E seed \in AdvSeeds :
       \E encoding \in {gt_to_compressed_bytes(fq12_rand(seed))} :
       \E bytes \in NearEncodings(encoding) :
         codecCall' =
           decode_call("Gt", bytes, gt_from_compressed_bytes(bytes),
                       deserialize(serialize(bytes, FALSE), FALSE, "Gt"))
  /\ CodecFrame

\* the keys and the ciphertext exist before they are serialized
CodecKeyGen == codecCall.op = "none" /\ EgKeyGen

CodecEncrypt == codecCall.op = "none" /\ EgEncrypt

CodecNext ==
  \/ CodecKeyGen
  \/ CodecEncrypt
  \/ CodecScalar
  \/ CodecPoint
  \/ CodecGt
  \/ CodecKey
  \/ CodecCiphertext
  \/ CodecDecodePoint
  \/ CodecDecodeGt

SpecCodec == Init /\ [][CodecNext]_vars

\* ------------------------------------------------ multisignature: session
XfrPks == [i \in 1 .. Len(xfrKeys) |-> xfrKeys[i].pub_key]

\* a list without its entry at position j
Without(xs, j) == SubSeq(xs, 1, j - 1) \o SubSeq(xs, j + 1, Len(xs))

\* the key lists of the tests: the signers' keys, with a key added, with a key
\* removed, with a key replaced by another one
KeyLists ==
  {XfrPks}
    \cup {Append(XfrPks, pk) : pk \in GroupSet}
    \cup {Without(XfrPks, j) : j \in 1 .. Len(XfrPks)}
    \cup {[XfrPks EXCEPT ![j] = pk] : j \in 1 .. Len(XfrPks), pk \in GroupSet}

\* the multisignature, without one of its signatures, or with its signatures
\* in the opposite order
MultiSigs ==
  {xfrMsig.signatures}
    \cup {Without(xfrMsig.signatures, j) : j \in 1 .. Len(xfrMsig.signatures)}
    \cup {[i \in 1 .. Len(xfrMsig.signatures) |->
             xfrMsig.signatures[Len(xfrMsig.signatures) + 1 - i]]}

\* generate_keys: one more key pair
XfrGenerate ==
  /\ Len(xfrKeys) < MaxKeys
  /\ ~xfrMsig.set
  /\ \E sec_key \in ScalarSet : xfrKeys' = Append(xfrKeys, xfr_generate(sec_key))
  /\ UNCHANGED <<xfrMsig, xfrCall>>
  /\ XfrFrame

\* sign_multisig by all key pairs
XfrSignMultisig ==
  /\ ~xfrMsig.set
  /\ \E message \in Msgs :
       xfrMsig' = [set |-> TRUE, msg |-> message,
                   signatures |-> sign_multisig(xfrKeys, message).signatures]
  /\ UNCHANGED <<xfrKeys, xfrCall>>
  /\ XfrFrame

\* verify_multisig on a key list, a message and a multisignature
XfrVerifyMultisig ==
  /\ xfrMsig.set
  /\ xfrCall.op = "none"
  /\ \E keylist \in KeyLists, message \in Msgs, signatures \in MultiSigs :
       xfrCall' = [op |-> "verify_multisig", keylist |-> keylist,
                   message |-> message, signatures |-> signatures,
                   res |-> verify_multisig(keylist, message,
                                           [signatures |-> signatures])]
  /\ UNCHANGED <<xfrKeys, xfrMsig>>
  /\ XfrFrame

XfrNext ==
  \/ XfrGenerate
  \/ XfrSignMultisig
  \/ XfrVerifyMultisig

SpecXfr == Init /\ [][XfrNext]_vars

\* ------------------------------------------------- conversion note: session
AssetTypes == 0 .. 1

\* the blinds the prng draws in a session
ArBlinds == {blind \in ScalarSet : blind <= 1}

\* gen_ar_to_abar_note for a record of the owner; the blind is drawn by the prng
ArGenNote ==
  /\ ~arNote.set
  /\ \E sec_key \in ScalarSet, amount_conf \in BOOLEAN, asset_conf \in BOOLEAN,
        amount \in U64, asset_type \in AssetTypes, blind \in ArBlinds :
       LET bar_keypair == xfr_generate(sec_key)
           record == open_asset_record(amount_conf, asset_conf, amount, asset_type,
                                       bar_keypair.pub_key)
       IN  arNote' = [set |-> TRUE, honest |-> TRUE, resigned |-> FALSE,
                      record |-> record,
                      note |-> gen_ar_to_abar_note(blind, record, bar_keypair,
                                                   get_base, get_base)]
  /\ UNCHANGED arCall
  /\ ArFrame

\* the bodies a sender without the owner's key can put in place of a body:
\* another amount or asset type in the clear, a confidential amount or asset
\* type, the commitment or the proof of another output, and the whole body of
\* a conversion of another amount
TamperedBodies(body) ==
  {[body EXCEPT !.input.amount = NonConfidential(a)] : a \in U64}
    \cup {[body EXCEPT !.input.asset_type = NonConfidential(t)] : t \in AssetTypes}
    \cup {[body EXCEPT !.input.amount = Confidential(body.input.amount.val)],
          [body EXCEPT !.input.asset_type = Confidential(body.input.asset_type.val)]}
    \cup UNION {LET other == gen_ar_to_abar_body(
                               get_base,
                               open_asset_record(FALSE, FALSE, a, t,
                                                 body.input.public_key),
                               get_base, get_base)
                IN  {[body EXCEPT !.output = other.output],
                     [body EXCEPT !.proof = other.proof],
                     other} : a \in U64, t \in AssetTypes}

ArTamper ==
  /\ arNote.set
  /\ arNote.honest
  /\ arCall.op = "none"
  /\ \E body \in TamperedBodies(arNote.note.body) \ {arNote.note.body} :
       arNote' = [arNote EXCEPT !.honest = FALSE, !.note.body = body]
  /\ UNCHANGED arCall
  /\ ArFrame

\* the sender signs the body with a key pair of their own, and may put their
\* public key in the input
ArResign ==
  /\ arNote.set
  /\ ~arNote.resigned
  /\ arCall.op = "none"
  /\ \E sec_key \in ScalarSet, replace \in BOOLEAN :
       LET keypair == xfr_generate(sec_key)
           body == IF replace
                   THEN [arNote.note.body EXCEPT !.input.public_key = keypair.pub_key]
                   ELSE arNote.note.body
       IN  arNote' = [arNote EXCEPT
                        !.honest = FALSE, !.resigned = TRUE,
                        !.note = [body |-> body,
                                  signature |-> keypair_sign(keypair,
                                                             body_serialize(body))]]
  /\ UNCHANGED arCall
  /\ ArFrame

ArVerify ==
  /\ arNote.set
  /\ arCall.op = "none"
  /\ arCall' = [op |-> "verify_ar_to_abar_note", note |-> arNote.note,
                honest |-> arNote.honest,
                res |-> verify_ar_to_abar_note(arNote.note)]
  /\ UNCHANGED arNote
  /\ ArFrame

ArNext ==
  \/ ArGenNote
  \/ ArTamper
  \/ ArResign
  \/ ArVerify

SpecAr == Init /\ [][ArNext]_vars

\* --------------------------------------------- scalars from machine integers
\* Scalar::from_u64 is called on a u64
FromU64Call ==
  /\ loop.op = "none"
  /\ \E value \in U64 :
       loop' = [op |-> "from_u64", value |-> value, st |-> from_u64_start(value)]
  /\ LoopFrame

\* Scalar::from_u32 is called on a u32 and hands it to from_u64
FromU32Call ==
  /\ loop.op = "none"
  /\ \E value \in 0 .. u32_max_value :
       loop' = [op |-> "from_u32", value |-> value, st |-> from_u64_start(value)]
  /\ LoopFrame

\* one pass of the loop of from_u64
FromU64Step ==
  /\ loop.op \in {"from_u64", "from_u32"}
  /\ ~loop.st.done
  /\ loop' = [loop EXCEPT !.st = from_u64_iter(@)]
  /\ LoopFrame

\* as in the decryption test: elgamal_encrypt of the scalar made from the
\* integer
EgEncryptConverted ==
  /\ egKey.set
  /\ ~egCt.set
  /\ loop.op \in {"from_u64", "from_u32"}
  /\ loop.st.done
  /\ \E r \in ScalarSet :
       LET c == elgamal_encrypt(egKey.base, loop.st.result, r, egKey.pk) IN
       egCt' = [set |-> TRUE, honest |-> TRUE, m |-> loop.st.result, r |-> r,
                e1 |-> c.e1, e2 |-> c.e2]
  /\ egCall' = NoCall
  /\ UNCHANGED egKey
  /\ EgFrame

ScalarNext ==
  \/ EgKeyGen
  \/ FromU64Call
  \/ FromU32Call
  \/ FromU64Step
  \/ EgEncryptConverted
  \/ EgVerify

SpecScalar == Init /\ [][ScalarNext]_vars

\* ------------------------------------------- ElGamal: the search, stepwise
\* elgamal_decrypt_hinted on the ciphertext of the session enters brute_force
BruteForceCall ==
  /\ egCt.set
  /\ loop.op = "none"
  /\ \E lower \in U64, upper \in U64 :
       loop' = [op |-> "brute_force", base |-> egKey.base,
                encoded |-> elgamal_decrypt_elem(egCt, egKey.sk),
                lower |-> lower, upper |-> upper,
                st |-> brute_force_start(egKey.base, lower)]
  /\ LoopFrame

\* one pass of the loop of brute_force
BruteForceStep ==
  /\ loop.op = "brute_force"
  /\ ~loop.st.done
  /\ loop' = [loop EXCEPT !.st = brute_force_iter(@, loop.base, loop.encoded,
                                                  loop.upper)]
  /\ LoopFrame

BruteForceNext ==
  \/ EgKeyGen
  \/ EgEncrypt
  \/ EgReceive
  \/ BruteForceCall
  \/ BruteForceStep

SpecBruteForce == Init /\ [][BruteForceNext]_vars

\* ------------------------------------------- confidential transaction
\* Transaction::new for a receiver key, an amount and the fresh blind
TxNew ==
  /\ ~txTx.set
  /\ \E sk \in ScalarSet, transfer_amount \in 0 .. u32_max_value,
        blinding_t \in ScalarSet :
       txTx' = [set |-> TRUE, sk |-> sk, amount |-> transfer_amount,
                blind |-> blinding_t,
                tx |-> Transaction_new(mul(get_base, sk), transfer_amount,
                                       blinding_t)]
  /\ UNCHANGED txCall
  /\ TxFrame

\* recover_plaintext with the secret key of the receiver
TxRecover ==
  /\ txTx.set
  /\ txCall.op = "none"
  /\ \E parts \in {recover_split(txTx.tx, txTx.sk)} :
       \E fixed \in (IF parts.ok THEN slice_to_fixed32(parts.val.raw_blind)
                     ELSE {Panic}) :
         txCall' = [op |-> "recover_plaintext", fixed |-> fixed,
                    res |-> recover_plaintext(txTx.tx, txTx.sk, fixed)]
  /\ UNCHANGED txTx
  /\ TxFrame

TxNext ==
  \/ TxNew
  \/ TxRecover

SpecTx == Init /\ [][TxNext]_vars

\* ------------------------------------------------- joint proof: properties
\* the number of true bits of the session's bitmap
PokShown == Len(positions(pokCred.bitmap, TRUE, Len(pokCred.bitmap)))

\* C10: completeness of the joint proof.  With an honest reveal proof for the
\* bitmap, honest ciphertexts of the bitmap-true attributes in position order
\* and the proof pok_attrs_prove makes for them, pok_attrs_prove returns Ok and
\* pok_attrs_verify returns Ok(()).
C10_Completeness ==
  /\ pokProof.set => pokProof.res.ok
  /\ pokCall.op = "pok_attrs_verify" => pokCall.res = Ok(0)

C10_Witness ==
  /\ pokCall.op = "pok_attrs_verify"
  /\ pokCall.res = Ok(0)
  /\ Len(pokKeys.attrs) = MaxAttrs
  /\ PokShown >= 1
  /\ PokShown < MaxAttrs
  /\ pokKeys.issuer.pk.gen2 # get_identity
  /\ pokKeys.asset.pk # get_identity
  /\ pokCred.proof.sig.sigma1 # get_identity
  /\ pokCred.proof.sig.sigma2 # get_identity
  /\ compute_challenge(hashCred, pokCred.proof.pok.commitment) # 0
  /\ pok_attrs_challenge(hashPok, pokProof.res.val.attr_commitments,
                         pokProof.res.val.rand_commitments) # 0
  /\ \A j \in 1 .. PokShown :
       /\ pokCts.attrs[j] # 0
       /\ pokCts.rand[j] # 0
       /\ pokProof.res.val.attr_commitments[j] # get_identity
       /\ pokProof.res.val.rand_commitments[j][1] # get_identity
  /\ pokProof.res.val.attr_blind_cred_commitment # get_identity

\* the challenge of the reveal proof
PokCredChallenge == compute_challenge(hashCred, pokCred.proof.pok.commitment)

\* the fields whose bytes pok_attrs_challenge hashes
PokHashedFields == {"attr_commitments", "rand_commitments_0", "rand_commitments_1"}

\* no component of a ciphertext of the session is the identity
PokCtsRegular ==
  \A i \in 1 .. Len(pokCts.ctexts) :
    /\ pokCts.ctexts[i].e1 # get_identity
    /\ pokCts.ctexts[i].e2 # get_identity

\* a call with one field element changed in which no hash value decides the
\* verdict: the challenge of the reveal proof is not zero, and when the
\* change moves the challenge of the proof, the first equation of a
\* ciphertext with regular components pins it
PokTamperedCall ==
  /\ pokCall.op = "verify_tampered"
  /\ PokCredChallenge # 0
  /\ pokCall.field \in PokHashedFields => PokCtsRegular

\* C11 as claimed: changing one field element of an honest proof that
\* verifies makes pok_attrs_verify return IdentityRevealVerificationError.
C11_Original ==
  PokTamperedCall => pokCall.res = Err(IdentityRevealVerificationError)

\* C11 amended: a changed response or a changed hashed commitment is always
\* rejected; a changed attr_blind_cred_commitment is rejected when sigma1 of
\* the reveal proof is not the identity of G1.
C11_Tamper ==
  (/\ PokTamperedCall
   /\ pokCall.field = "attr_blind_cred_commitment"
         => pokCred.proof.sig.sigma1 # get_identity)
    => pokCall.res = Err(IdentityRevealVerificationError)

C11_Witness ==
  /\ PokTamperedCall
  /\ pokCall.field = "attr_blind_cred_commitment"
  /\ pokCred.proof.sig.sigma1 # get_identity
  /\ PokShown >= 1
  /\ PokShown < MaxAttrs
  /\ pokCall.res = Err(IdentityRevealVerificationError)

\* the credential of the session is regular: the signature is not the
\* identity and neither challenge hashes to zero
PokCredRegular ==
  /\ pokCred.proof.sig.sigma1 # get_identity
  /\ PokCredChallenge # 0
  /\ pok_attrs_challenge(hashPok, pokProof.res.val.attr_commitments,
                         pokProof.res.val.rand_commitments) # 0

\* C12: pok_attrs_verify with a bitmap that differs from the bitmap of the
\* reveal proof and of the PoKAttrs proof returns
\* IdentityRevealVerificationError: it neither accepts nor ends otherwise.
C12_Original ==
  (pokCall.op = "verify_bitmap" /\ PokCredRegular)
    => pokCall.res = Err(IdentityRevealVerificationError)

\* the number of true bits of a bitmap
TrueBits(bitmap) == Len(positions(bitmap, TRUE, Len(bitmap)))

\* C14: pok_attrs_prove returns Err(ParameterError), and no proof, whenever
\* the number of true bitmap positions differs from the number of randomness
\* values in ctexts_rand (stated for bitmaps as long as the issuer key).
C14_Original ==
  (/\ pokCall.op = "pok_attrs_prove"
   /\ Len(pokCall.bitmap) = Len(pokKeys.issuer.pk.yy2)
   /\ TrueBits(pokCall.bitmap) # Len(pokCall.ctexts_rand))
    => (~pokCall.res.ok /\ pokCall.res.err = ParameterError)

\* C13: in every proof pok_attrs_prove returns as Ok the four sequences have
\* the same length, the number of true bits of the bitmap, whatever the
\* lengths of attrs and ctexts_rand (stated for bitmaps as long as the issuer
\* key).
C13_Original ==
  (/\ pokCall.op = "pok_attrs_prove"
   /\ Len(pokCall.bitmap) = Len(pokKeys.issuer.pk.yy2)
   /\ pokCall.res.ok)
    => /\ Len(pokCall.res.val.attr_commitments) = TrueBits(pokCall.bitmap)
       /\ Len(pokCall.res.val.rand_commitments) = TrueBits(pokCall.bitmap)
       /\ Len(pokCall.res.val.attr_responses) = TrueBits(pokCall.bitmap)
       /\ Len(pokCall.res.val.rand_responses) = TrueBits(pokCall.bitmap)

\* C15: whatever the proofs, ciphertexts and bitmap pok_attrs_verify is given,
\* it ends with Ok, Err(IdentityRevealVerificationError) or
\* Err(ParameterError), never with a panic.
C15_Original ==
  pokCall.op \in {"pok_attrs_verify", "verify_tampered", "verify_bitmap"}
    => \/ pokCall.res.ok
       \/ pokCall.res.err \in {IdentityRevealVerificationError, ParameterError}

\* the byte string is the encoding of an element of the group
ValidEncoding(group, bytes) ==
  IF group = "Gt"
  THEN /\ Len(bytes) = Gt_COMPRESSED_LEN
       /\ \A k \in 1 .. 12 :
            repr_value(limbs_of(SubSeq(bytes, (k - 1) * FqLimbs * LimbBytes + 1,
                                       k * FqLimbs * LimbBytes), FqLimbs),
                       FqLimbs) < FqModulus
  ELSE \E x \in GroupSet :
         point_to_compressed_bytes(x, COMPRESSED_LEN(group)) = bytes

\* C16: on a byte string that is not a valid encoding, from_compressed_bytes
\* of G1, G2 and Gt reports the failure as a value (None) and the
\* deserializer returns a deserialization error; neither aborts.
C16_Original ==
  (/\ codecCall.op = "from_compressed_bytes"
   /\ ~ValidEncoding(codecCall.group, codecCall.bytes))
    => /\ codecCall.decoded = None
       /\ codecCall.deserialized = Err(DeserializationError)

C18_Original ==
  blsCall.op \in {"len_aggregate", "len_batch_verify", "len_batch_verify_added"}
    => /\ ~blsCall.res.ok
       /\ blsCall.res.err = "panic"

\* every signature of the call verifies under the key at its position
XfrAllVerify ==
  /\ Len(xfrCall.signatures) = Len(xfrCall.keylist)
  /\ \A i \in 1 .. Len(xfrCall.keylist) :
       xfr_verify(xfrCall.keylist[i], xfrCall.message, xfrCall.signatures[i]).ok

\* the call is on the multisignature sign_multisig returned and its message
XfrHonestCall ==
  /\ xfrCall.op = "verify_multisig"
  /\ xfrCall.signatures = xfrMsig.signatures
  /\ xfrCall.message = xfrMsig.msg

\* C19: verify_multisig is Ok exactly when there are as many signatures as
\* keys and signature i verifies under key i for the message, and
\* Err(SignatureError) otherwise; the multisignature of sign_multisig is
\* accepted under the signers' keys in their order and rejected when a key
\* is added, removed or replaced by another key.
C19_Multisig ==
  /\ xfrCall.op = "verify_multisig"
       => /\ xfrCall.res.ok <=> XfrAllVerify
          /\ ~xfrCall.res.ok => xfrCall.res = Err(SignatureError)
  /\ (XfrHonestCall /\ xfrCall.keylist = XfrPks) => xfrCall.res = Ok(0)
  /\ (XfrHonestCall /\ Len(xfrCall.keylist) # Len(XfrPks))
       => xfrCall.res = Err(SignatureError)
  /\ (XfrHonestCall /\ \E j \in 1 .. Len(XfrPks) :
                         /\ Len(xfrCall.keylist) = Len(XfrPks)
                         /\ xfrCall.keylist[j] # XfrPks[j])
       => xfrCall.res = Err(SignatureError)

\* two signers, and the multisignature was checked under the keys of the
\* first signer and a third key
C19_Witness ==
  /\ XfrHonestCall
  /\ Len(XfrPks) = 2
  /\ Len(xfrCall.keylist) = 2
  /\ xfrCall.keylist[1] = XfrPks[1]
  /\ xfrCall.keylist[2] # XfrPks[2]
  /\ xfrCall.keylist[2] # XfrPks[1]
  /\ xfrCall.res = Err(SignatureError)

\* the number of true bits among the positions pok_attrs_prove visits
PokVisitedTrue ==
  Cardinality({i \in 1 .. Min(Len(pokCall.bitmap), Len(pokKeys.issuer.pk.yy2)) :
                 pokCall.bitmap[i]})

\* C20: pok_attrs_prove asks the generator for two scalars per bitmap-true
\* position and for nothing else, in position order, the attribute blind
\* before the randomness blind: the generator ends two draws per true
\* position further on the same stream, the j-th commitments are made of
\* draws 2j-1 and 2j, and the responses blind the j-th attribute and
\* randomness with them, so the proof is fixed by the inputs and the stream.
C20_DrawOrder ==
  pokCall.op = "pok_attrs_prove"
    => /\ prng = [seed |-> pokCall.prng.seed,
                  pos |-> pokCall.prng.pos + 2 * PokVisitedTrue]
       /\ pokCall.res.ok
            => LET pok == pokCall.res.val
                   c   == pok_attrs_challenge(hashPok, pok.attr_commitments,
                                              pok.rand_commitments)
               IN  /\ Len(pok.attr_commitments) = PokVisitedTrue
                   /\ \A j \in 1 .. PokVisitedTrue :
                        /\ pok.attr_commitments[j]
                             = mul(get_base, random_scalar(pokCall.prng, 2 * j - 1))
                        /\ pok.rand_commitments[j][1]
                             = mul(get_base, random_scalar(pokCall.prng, 2 * j))
                        /\ pok.attr_responses[j]
                             = s_add(s_mul(pokCall.attrs[j], c),
                                     random_scalar(pokCall.prng, 2 * j - 1))
                   /\ \A j \in 1 .. Len(pok.rand_responses) :
                        pok.rand_responses[j]
                          = s_add(s_mul(pokCall.ctexts_rand[j], c),
                                  random_scalar(pokCall.prng, 2 * j))

\* a proof for two shown attributes whose four draws are not all equal
C20_Witness ==
  /\ pokCall.op = "pok_attrs_prove"
  /\ pokCall.res.ok
  /\ PokVisitedTrue = 2
  /\ Len(pokCall.ctexts_rand) = 2
  /\ random_scalar(pokCall.prng, 1) # random_scalar(pokCall.prng, 2)
  /\ random_scalar(pokCall.prng, 3) # random_scalar(pokCall.prng, 4)
  /\ prng.pos = pokCall.prng.pos + 4

\* ------------------------------------------------ conversion note: properties
\* the signature of the verified note was made over its body by the holder of
\* the secret key of body.input.public_key
ArSigned ==
  \E sec_key \in ScalarSet :
    /\ mul(get_base, sec_key) = arCall.note.body.input.public_key
    /\ arCall.note.signature
         = xfr_sign(sec_key, body_serialize(arCall.note.body),
                    arCall.note.body.input.public_key)

ArClear ==
  /\ ~arCall.note.body.input.amount.conf
  /\ ~arCall.note.body.input.asset_type.conf

ArProved ==
  verify_ar_to_abar(arCall.note.body.input.amount.val,
                    arCall.note.body.input.asset_type.val,
                    arCall.note.body.output.commitment,
                    arCall.note.body.proof).ok

\* C21: verify_ar_to_abar_note returns Ok only if the signature verifies over
\* the serialized body under body.input.public_key, amount and asset type are
\* in the clear and the proof verifies against (amount, asset type, output
\* commitment).  A bad signature is reported whatever the body is, a
\* confidential amount or asset type under a good signature gives
\* ParameterError whatever the proof is, and the note gen_ar_to_abar_note
\* makes from a record in the clear is accepted.
C21_NoteVerify ==
  arCall.op = "verify_ar_to_abar_note"
    => /\ arCall.res.ok => (ArSigned /\ ArClear /\ ArProved)
       /\ ~ArSigned => arCall.res = Err(SignatureError)
       /\ (ArSigned /\ ~ArClear) => arCall.res = Err(ParameterError)
       /\ (ArSigned /\ ArClear /\ ~ArProved)
            => arCall.res = Err(ZKProofVerificationError)
       /\ (arCall.honest /\ ArClear) => arCall.res = Ok(0)

\* a note with a confidential asset type, signed by the holder of its public
\* key, is refused with ParameterError
C21_Witness ==
  /\ arCall.op = "verify_ar_to_abar_note"
  /\ ArSigned
  /\ ~arCall.note.body.input.amount.conf
  /\ arCall.note.body.input.asset_type.conf
  /\ arCall.res = Err(ParameterError)

\* ------------------------------------------------- ElGamal: 32-bit decryption
\* C22: elgamal_decrypt is elgamal_decrypt_hinted over [0, 2^32): an honest
\* ciphertext of a u64 plaintext below 2^32 (2^32 - 1 included) decrypts to
\* it, one of 2^32 or more gives ElGamalDecryptionError, and
\* elgamal_decrypt_as_scalar gives from_u64 of the value or the same error.
C22_Decrypt32 ==
  /\ egCall.op = "decrypt"
       => /\ egCall.res = elgamal_decrypt_hinted(egKey.base, egCt, egKey.sk,
                                                 0, Pow(2, U32Bits))
          /\ (egCt.honest /\ egCt.m \in U64)
               => egCall.res = IF egCt.m < Pow(2, U32Bits) THEN Ok(egCt.m)
                               ELSE Err(ElGamalDecryptionError)
  /\ egCall.op = "decrypt_as_scalar"
       => /\ (egCt.honest /\ egCt.m \in U64)
               => egCall.res = IF egCt.m < Pow(2, U32Bits) THEN Ok(from_u64(egCt.m))
                               ELSE Err(ElGamalDecryptionError)
          /\ LET r == elgamal_decrypt_hinted(egKey.base, egCt, egKey.sk,
                                             0, Pow(2, U32Bits))
             IN  egCall.res = IF r.ok THEN Ok(from_u64(r.val)) ELSE r

\* the plaintext 2^32 - 1 is decrypted
C22_Witness ==
  /\ egCall.op = "decrypt"
  /\ egCt.honest
  /\ egCt.m = Pow(2, U32Bits) - 1
  /\ egKey.sk # 0 /\ egCt.r # 0
  /\ egCall.res = Ok(egCt.m)

\* ------------------------------------------------- BLS: coefficient vector
RECURSIVE WeightedSum(_, _, _)
\* the sum of coefficient_i * x_i over the positions in S
WeightedSum(coefficients, xs, S) ==
  IF S = {} THEN get_identity
  ELSE LET i == CHOOSE i \in S : TRUE
       IN  add(mul(xs[i], coefficients[i]), WeightedSum(coefficients, xs, S \ {i}))

\* the key lists next to ks: its keys in the opposite order, ks with one key
\* replaced, without its last key, and with one more key
KeyListsNear(ks) ==
  {[i \in 1 .. Len(ks) |-> ks[Len(ks) + 1 - i]]}
    \cup {[ks EXCEPT ![j] = pk] : j \in 1 .. Len(ks), pk \in GroupSet}
    \cup {SubSeq(ks, 1, Len(ks) - 1)}
    \cup {Append(ks, pk) : pk \in GroupSet}

\* C23: bls_aggregate and bls_verify_aggregated take their coefficients from
\* the same hash of the ordered key list: the i-th hash input is the
\* big-endian index i followed by the digest of the keys' compressed bytes in
\* order, so it differs between positions and between key lists and holds
\* neither message nor signature; the aggregate signature is the sum of
\* coefficient_i * sig_i, and the aggregate is verified under the sum of
\* coefficient_i * pk_i for the same coefficients.
C23_Coefficients ==
  /\ (blsSigs = <<>> /\ blsAgg.op = "none")
       => LET ks == BlsPks
              inputs == scalars_hash_inputs(ks)
          IN  /\ Len(inputs) = Len(ks)
              /\ \A i \in 1 .. Len(ks) :
                   /\ bigendian_value(inputs[i].index, LimbBytes) = i - 1
                   /\ inputs[i].hash = <<"HashFnc", pubkeys_hash_input(ks)>>
              /\ \A other \in KeyListsNear(ks) :
                   other # ks => pubkeys_hash_input(other) # pubkeys_hash_input(ks)
  /\ (blsAgg.op = "aggregate" /\ blsAgg.out.ok)
       => /\ blsAgg.pks = BlsPks
          /\ blsAgg.pks \in DOMAIN hashFr
          /\ blsAgg.out.val
               = WeightedSum(hashFr[blsAgg.pks], blsAgg.sigs, 1 .. Len(blsAgg.pks))
  /\ blsCall.op = "verify_aggregated"
       => /\ blsCall.pks = blsAgg.pks
          /\ blsCall.res
               = bls_verify(hashG2,
                            WeightedSum(hashFr[blsAgg.pks], blsCall.pks,
                                        1 .. Len(blsCall.pks)),
                            blsCall.msgs[1], blsCall.sigs[1])

\* an aggregate of MaxKeys signatures with different coefficients, verified
C23_Witness ==
  /\ blsCall.op = "verify_aggregated"
  /\ Len(blsAgg.pks) = MaxKeys
  /\ hashFr[blsAgg.pks][1] # hashFr[blsAgg.pks][MaxKeys]
  /\ blsAgg.sigs[1] # blsAgg.sigs[MaxKeys]
  /\ blsAgg.pks[1] # blsAgg.pks[MaxKeys]
  /\ blsAgg.out.val # get_identity
  /\ blsCall.res.ok

\* the fields of a PoKAttrs proof that hold commitments
PokCommitmentFields == PokHashedFields \cup {"attr_blind_cred_commitment"}

\* the input pok_attrs_challenge hashes for a proof
PokChallengeInput(pok_attrs) ==
  challenge_input(pok_attrs.attr_commitments, pok_attrs.rand_commitments)

\* C24: the challenge is computed by one function for prover and verifier:
\* the responses of an unmodified proof are those made with the challenge
\* the verifier derives from the proof; and every commitment of the proof
\* record is part of the hash input: a proof with one commitment altered has
\* another hash input than the proof it was made from.
C24_Original ==
  /\ (pokProof.set /\ pokProof.res.ok)
       => LET pok_attrs == pokProof.res.val
              c == pok_attrs_challenge(hashPok, pok_attrs.attr_commitments,
                                       pok_attrs.rand_commitments)
          IN  \A j \in 1 .. Len(pok_attrs.attr_responses) :
                /\ mul(get_base, pok_attrs.attr_responses[j])
                     = add(mul(mul(get_base, pokCts.attrs[j]), c),
                           pok_attrs.attr_commitments[j])
                /\ mul(get_base, pok_attrs.rand_responses[j])
                     = add(mul(mul(get_base, pokCts.rand[j]), c),
                           pok_attrs.rand_commitments[j][1])
  /\ (pokCall.op = "verify_tampered" /\ pokCall.field \in PokCommitmentFields)
       => PokChallengeInput(pokCall.proof) # PokChallengeInput(pokProof.res.val)

\* C25: pok_attrs_verify returns Ok only if both equations hold at every
\* bitmap-true position, whatever the lengths of the ciphertext list and of
\* the sequences of the proof: every one of the lists has an entry for the
\* position and the entries satisfy the two equations.
C25_Original ==
  (pokCall.op = "verify_lengths" /\ pokCall.res.ok)
    => LET c == pok_attrs_challenge(hashPok, pokCall.proof.attr_commitments,
                                    pokCall.proof.rand_commitments)
       IN  \A i \in 1 .. PokShown :
             /\ i <= ctexts_checked(pokCall.ctexts, pokCall.proof)
             /\ verify_e1(c, pokCall.ctexts, pokCall.proof, i)
             /\ verify_e2(c, pokCall.ctexts, pokCall.proof, pokKeys.asset.pk, i)

\* ---------------------------------------------- joint proof: the credential
\* the positions of the zip of bitmap with yy2 that hold b
CredPositions(cred_issuer_public_key, bitmap, b) ==
  {i \in 1 .. Min(Len(bitmap), Len(cred_issuer_public_key.yy2)) : bitmap[i] = b}

\* the sum over the positions that hold b of yy2_i times the responses,
\* consumed in order: the k-th such position takes the k-th response
CredSum(cred_issuer_public_key, bitmap, b, responses) ==
  LET P == CredPositions(cred_issuer_public_key, bitmap, b)
  IN  WeightedSum([i \in P |-> responses[Cardinality({k \in P : k <= i})]],
                  cred_issuer_public_key.yy2, P)

\* the bitmap and the proof of a call of pok_attrs_verify and the ciphertexts
\* it is given
PokCallBitmap == IF pokCall.op = "verify_bitmap" THEN pokCall.bitmap ELSE pokCred.bitmap

PokCallProof == IF pokCall.op = "verify_tampered" THEN pokCall.proof ELSE pokProof.res.val

\* C26: verify_credential answers Ok(()) when pairing(sigma1, lhs) equals
\* pairing(sigma2, rhs) and IdentityRevealVerificationError otherwise, with
\* Q = xx2 cred_challenge - commitment + gen2 response_t + zz2 response_sk
\*     + the sum over bitmap-false positions of yy2_i response_attrs,
\* lhs = Q c + cred_challenge (the sum over bitmap-true positions of
\*       yy2_i attr_response - attr_blind_cred_commitment) and
\* rhs = gen2 (cred_challenge c).  Stated of the calls of pok_attrs_verify
\* whose ciphertext check passes, where the answer is verify_credential's.
C26_Original ==
  (/\ pokCall.op \in {"verify_bitmap", "verify_tampered"}
   /\ verify_ciphertext(pok_attrs_challenge(hashPok, PokCallProof.attr_commitments,
                                            PokCallProof.rand_commitments),
                        pokCts.ctexts, PokCallProof, pokKeys.asset.pk).ok)
    => LET pk == pokKeys.issuer.pk
           pok == pokCred.proof.pok
           c == pok_attrs_challenge(hashPok, PokCallProof.attr_commitments,
                                    PokCallProof.rand_commitments)
           hidden == Cardinality(CredPositions(pk, PokCallBitmap, FALSE))
           shown == Cardinality(CredPositions(pk, PokCallBitmap, TRUE))
       IN  /\ pokCall.res \in {Ok(0), Err(IdentityRevealVerificationError)}
           /\ (hidden <= Len(pok.response_attrs)
                 /\ shown <= Len(PokCallProof.attr_responses))
                => LET QQ == add(add(add(sub(mul(pk.xx2, PokCredChallenge),
                                             pok.commitment),
                                         mul(pk.gen2, pok.response_t)),
                                     mul(pk.zz2, pok.response_sk)),
                                 CredSum(pk, PokCallBitmap, FALSE,
                                         pok.response_attrs))
                       lhs == add(mul(QQ, c),
                                  mul(sub(CredSum(pk, PokCallBitmap, TRUE,
                                                  PokCallProof.attr_responses),
                                          PokCallProof.attr_blind_cred_commitment),
                                      PokCredChallenge))
                       rhs == mul(pk.gen2, s_mul(PokCredChallenge, c))
                   IN  pokCall.res.ok
                         <=> pairing(pokCred.proof.sig.sigma1, lhs)
                               = pairing(pokCred.proof.sig.sigma2, rhs)

\* the verdict part of C26 alone: a call that returns answers as the pairing
\* equation says
C26_Returned ==
  pokCall.res \in {Ok(0), Err(IdentityRevealVerificationError)} => C26_Original

\* --------------------------------------------- scalars from machine integers
RECURSIVE BitSum(_, _)
\* the sum of 2^k over the set bits k >= i of v
BitSum(v, i) ==
  IF i >= U64Bits THEN 0
  ELSE (IF (v \div Pow(2, i)) % 2 = 1 THEN Pow(2, i) ELSE 0) + BitSum(v, i + 1)

\* C28: for every u64 v, 0 and the largest included, from_u64(v) is the sum
\* of 2^i over the set bits i of v in the scalar field, that is v reduced
\* modulo the field order; the loop makes at most as many passes as a u64 has
\* bits; and from_u32(w) = from_u64(w) for every u32 w.
C28_FromU64 ==
  loop.op \in {"from_u64", "from_u32"}
    => /\ loop.st.i <= U64Bits
       /\ loop.st.done
            => /\ loop.st.result = BitSum(loop.value, 0) % Q
               /\ loop.st.result = loop.value % Q
               /\ loop.st.result = from_u64(loop.value)
               /\ loop.op = "from_u32"
                    => /\ loop.st.result = from_u32(loop.value)
                       /\ from_u32(loop.value) = from_u64(loop.value)

\* from_u64 of the largest u64 has returned after a pass for every bit, and
\* the scalar was encrypted and verified as in the test
C28_Witness ==
  /\ loop.op = "from_u64"
  /\ loop.value = MaxU64
  /\ loop.st.done
  /\ loop.st.i = U64Bits
  /\ loop.st.result = MaxU64 % Q
  /\ egCall.op = "verify"
  /\ egCall.m = loop.st.result
  /\ egCall.res = Ok(0)

\* ------------------------------------------- ElGamal: the search, stepwise
\* C30: at the start of every iteration i of brute_force b = base i; a
\* returned Ok(i) has base i = encoded and i is the smallest such value of
\* [lower, upper); there are at most upper - lower comparisons; and with
\* lower >= upper the result is ElGamalDecryptionError after no comparison.
C30_BruteForce ==
  loop.op = "brute_force"
    => /\ ~loop.st.done
            => /\ loop.st.b = mul(loop.base, from_u64(loop.st.i))
               /\ loop.st.i >= loop.lower
               /\ loop.st.comparisons = loop.st.i - loop.lower
       /\ loop.st.comparisons
            <= (IF loop.upper > loop.lower THEN loop.upper - loop.lower ELSE 0)
       /\ (loop.st.done /\ loop.st.res.ok)
            => /\ loop.st.res.val \in loop.lower .. (loop.upper - 1)
               /\ mul(loop.base, from_u64(loop.st.res.val)) = loop.encoded
               /\ \A k \in loop.lower .. (loop.st.res.val - 1) :
                    mul(loop.base, from_u64(k)) # loop.encoded
       /\ (loop.st.done /\ loop.lower >= loop.upper)
            => /\ loop.st.res = Err(ElGamalDecryptionError)
               /\ loop.st.comparisons = 0
       /\ loop.st.done
            => loop.st.res = brute_force(loop.base, loop.encoded,
                                         loop.lower, loop.upper)

\* a search that returned a value above its lower bound after comparing once
\* for each value passed
C30_Witness ==
  /\ loop.op = "brute_force"
  /\ loop.st.done
  /\ loop.st.res.ok
  /\ loop.st.res.val > loop.lower
  /\ loop.st.res.val < loop.upper - 1
  /\ loop.st.comparisons = loop.st.res.val - loop.lower + 1
  /\ loop.base # get_identity
  /\ egCt.honest

\* ------------------------------------------------------ BLS: empty lists
\* C29: with an empty key list bls_aggregate and bls_add_signatures return
\* the identity of G2, bls_verify_aggregated of the identity returns Ok(())
\* for every message, and bls_batch_verify of three empty lists returns
\* Ok(()).
C29_EmptyKeys ==
  /\ (blsAgg.op = "aggregate" /\ blsAgg.pks = <<>> /\ blsAgg.sigs = <<>>)
       => blsAgg.out = Ok(get_identity)
  /\ (blsAgg.op = "add_signatures" /\ blsAgg.sigs = <<>>)
       => blsAgg.out = Ok(get_identity)
  /\ (/\ blsCall.op = "verify_aggregated"
      /\ blsCall.pks = <<>>
      /\ blsCall.sigs = <<get_identity>>)
       => blsCall.res = Ok(0)
  /\ (/\ blsCall.op = "batch_verify"
      /\ blsCall.pks = <<>>
      /\ blsCall.msgs = <<>>
      /\ blsCall.sigs = <<>>)
       => blsCall.res = Ok(0)
  /\ (blsKeys = <<>> /\ blsCall.op = "none")
       => \A message \in Msgs :
            \A H \in HashFnc(hashG2, {message}) :
              \A HS \in HashFncScalars(hashFr, <<>>) :
                bls_verify_aggregated(H, HS, <<>>, message, get_identity) = Ok(0)

\* the identity, aggregated from no signature, was verified under no key for
\* a message nobody signed
C29_Witness ==
  /\ blsKeys = <<>>
  /\ blsAgg.op = "aggregate"
  /\ blsAgg.out = Ok(get_identity)
  /\ blsCall.op = "verify_aggregated"
  /\ blsCall.pks = <<>>
  /\ blsCall.msgs = <<"this message has not been signed">>
  /\ blsCall.sigs = <<get_identity>>
  /\ blsCall.res = Ok(0)

\* ------------------------------------------- confidential transaction
\* C27: recover_plaintext with the secret key of the receiver returns the
\* amount and the blinding factor Transaction::new locked.
C27_Original ==
  txCall.op = "recover_plaintext"
    => /\ txCall.res.ok
       /\ txCall.res.val = <<txTx.amount, txTx.blind>>

\* whatever slice_to_fixed32 answers, the amount is recovered whenever the
\* call returns, and the blind only when it is zero
C27_Recovered ==
  (txCall.op = "recover_plaintext" /\ txCall.res.ok)
    => /\ txCall.res.val[1] = txTx.amount
       /\ txCall.res.val[2] = txTx.blind <=> txTx.blind = 0

====
